---------------------------- MODULE Spec2Model ----------------------------
(***************************************************************************)
(* Memory / address-space core of the Arrow test generator.                *)
(*                                                                         *)
(*   - MMU (old_version/page_manager.py): allocate_page,                   *)
(*     allocate_cross_core_page and the identity (VA=PA) search, over the  *)
(*     interval trackers of every MMU and the global PA tracker.           *)
(*   - Memory (memory_operand.py): construction of a memory operand.       *)
(*                                                                         *)
(* Addresses and sizes are counted in units of 4 KiB (1 << 12 bytes):      *)
(* every address the MMU code handles is a multiple of 4 KiB, because the  *)
(* page sizes are 4 KiB and 2 MiB, the VA range starts at 2 GiB + 2 MiB    *)
(* and allocate_page rejects every alignment below 12 bits.                *)
(***************************************************************************)
EXTENDS Integers, Sequences, FiniteSets, Bags, TLC

(***************************************************************************)
(* Bounds of the model.                                                    *)
(***************************************************************************)
\* The VA range of an MMU, in 2 MiB frames (the code's range is 8 GiB).
VaRange2M == 2
\* The global PA range, in 2 MiB frames.
PaRange2M == 2
\* How many reservations (VA or PA ranges taken from a tracker) a run makes.
MaxReservations == 5
\* The same, for the runs that vary the arguments of allocate_page.
MaxReservationsArgs == 3
\* The memory operands constructed in a run.
MaxOperands == 2
\* The memory blocks allocated in a run.
MaxBlocks == 1
MaxBlocksArgs == 2
MaxTrackerCalls == 4
MaxScopes == 2
MaxTrickboxCalls == 2

(***************************************************************************)
(* Program constants.                                                      *)
(***************************************************************************)
ALIGN_BITS_4K == 12
ALIGN_BITS_2M == 21
ALIGN_BITS_1G == 30
\* log2 of 2 GiB, the start of the memory map (SIZE_2G of line 43).
SIZE_2G_BITS == 31

AddrUnitBits == ALIGN_BITS_4K

RECURSIVE Pow2(_)
Pow2(n) == IF n <= 0 THEN 1 ELSE 2 * Pow2(n - 1)

\* Optional arguments: <<>> is None, <<v>> is the value v.
None == <<>>
Some(v) == <<v>>
IsNone(x) == x = <<>>
Val(x) == x[1]

\* Configuration.Page_sizes, by value (in address units).
PageSizeValue(size) ==
    CASE size = "SIZE_4K" -> Pow2(ALIGN_BITS_4K - AddrUnitBits)
      [] size = "SIZE_2M" -> Pow2(ALIGN_BITS_2M - AddrUnitBits)
      [] size = "SIZE_1G" -> Pow2(ALIGN_BITS_1G - AddrUnitBits)

\* Configuration.Page_types
Page_types == {"TYPE_CODE", "TYPE_DATA", "TYPE_DEVICE", "TYPE_SYSTEM"}

\* 1 << alignment_bits, in address units.
Alignment(alignment_bits) ==
    IF alignment_bits > AddrUnitBits THEN Pow2(alignment_bits - AddrUnitBits) ELSE 1

\* random.randint(lo, hi), one of the values the model draws.
RandInt(lo, hi) == {lo, hi}

(***************************************************************************)
(* The state manager and the registry of MMUs.                             *)
(***************************************************************************)
\* state_manager.get_all_states(), in iteration order.
AllStates == <<"core_0", "core_1">>
\* mmu_manager.get_core_mmus(state_name), in iteration order.
CoreMmus(state_name) ==
    IF state_name = "core_0" THEN <<"c0_el3", "c0_el1">> ELSE <<"c1_el1">>

Range(s) == {s[i] : i \in 1..Len(s)}
StateNames == Range(AllStates)
MMUS == UNION {Range(CoreMmus(s)) : s \in StateNames}

(***************************************************************************)
(* IntervalLib: a tracker is the sequence of its free spans, ordered by    *)
(* start; a span is [start, size].                                         *)
(***************************************************************************)
IntervalLib(start_address, total_size) ==
    IF total_size = 0 THEN <<>> ELSE <<[start |-> start_address, size |-> total_size]>>

AlignUp(a, alignment) == ((a + alignment - 1) \div alignment) * alignment
AlignDown(a, alignment) == (a \div alignment) * alignment

\* The spans that can host `size` at the alignment, each with its first and last
\* aligned start.
SuitableSpans(intervals, size, alignment) ==
    {[first_aligned |-> AlignUp(intervals[i].start, alignment),
      last_aligned  |-> AlignDown(intervals[i].start + intervals[i].size - size, alignment)] :
        i \in {j \in 1..Len(intervals) :
                 /\ intervals[j].size >= size
                 /\ AlignUp(intervals[j].start, alignment)
                      <= AlignDown(intervals[j].start + intervals[j].size - size, alignment)}}

\* find_region: the starts it may return (a suitable span drawn at random, then an
\* aligned position in it drawn at random); empty when it fails with OutOfSpace.
FindRegion(intervals, size, alignment) ==
    UNION {{s.first_aligned + k * alignment :
              k \in RandInt(0, (s.last_aligned - s.first_aligned) \div alignment)} :
           s \in SuitableSpans(intervals, size, alignment)}

\* is_region_available: [start, start+size) lies in one free span.
IsRegionAvailable(intervals, start, size) ==
    \E i \in 1..Len(intervals) :
        /\ intervals[i].start <= start
        /\ start + size <= intervals[i].start + intervals[i].size

\* remove_region of a range that is free: the span holding it is split around it.
RemoveRegion(intervals, start, size) ==
    LET i == CHOOSE j \in 1..Len(intervals) :
                 /\ intervals[j].start <= start
                 /\ start + size <= intervals[j].start + intervals[j].size
        iv == intervals[i]
        left == IF iv.start < start
                THEN <<[start |-> iv.start, size |-> start - iv.start]>> ELSE <<>>
        right == IF start + size < iv.start + iv.size
                 THEN <<[start |-> start + size,
                         size |-> iv.start + iv.size - (start + size)]>>
                 ELSE <<>>
    IN SubSeq(intervals, 1, i - 1) \o left \o right
         \o SubSeq(intervals, i + 1, Len(intervals))

\* add_region: the tagged span is inserted in address order.
AddRegion(intervals, start, size, page_type) ==
    LET before == SelectSeq(intervals, LAMBDA iv : iv.start < start)
        after  == SelectSeq(intervals, LAMBDA iv : iv.start >= start)
    IN before \o <<[start |-> start, size |-> size, page_type |-> page_type]>> \o after


(***************************************************************************)
(* The state: the trackers and page lists of every MMU, the global PA      *)
(* tracker of the MMU manager and the state manager's active state.        *)
(***************************************************************************)
VARIABLES
    unmapped_va_intervals,      \* [MMUS -> tracker]: MMU.unmapped_va_intervals
    mapped_va_intervals,        \* [MMUS -> tracker]: MMU.mapped_va_intervals
    unmapped_pa_intervals,      \* mmu_manager.unmapped_pa_intervals
    page_table_entries,         \* [MMUS -> Seq(Page)]
    page_table_entries_by_type, \* [MMUS -> [Page_types -> Seq(Page)]]
    active_state,               \* state_manager's active state, by name
    va_reservations,            \* [MMUS -> bag of [start, size]]: ranges taken from unmapped VA
    pa_reservations,            \* bag of [start, size]: ranges taken from unmapped PA
    tracker_removals,           \* the removals from free pools the last call made, in order
    last_call                   \* the call just made: its arguments and its outcome

mmu_vars == <<unmapped_va_intervals, mapped_va_intervals, unmapped_pa_intervals,
              page_table_entries, page_table_entries_by_type, active_state,
              va_reservations, pa_reservations, tracker_removals, last_call>>

\* MMU.va_memory_range
VA_RANGE_ADDRESS == Pow2(SIZE_2G_BITS - AddrUnitBits) + PageSizeValue("SIZE_2M")
VA_RANGE_BYTE_SIZE == VaRange2M * PageSizeValue("SIZE_2M")
\* The PA range of the MMU manager's tracker: the memory map from 2 GiB.
PA_RANGE_ADDRESS == Pow2(SIZE_2G_BITS - AddrUnitBits)
PA_RANGE_BYTE_SIZE == PaRange2M * PageSizeValue("SIZE_2M")

\* The mutable state as one record, so that a handler is a function of it.
State ==
    [uva |-> unmapped_va_intervals, mva |-> mapped_va_intervals,
     upa |-> unmapped_pa_intervals, pages |-> page_table_entries,
     by_type |-> page_table_entries_by_type, active |-> active_state,
     va_res |-> va_reservations, pa_res |-> pa_reservations,
     removals |-> <<>>]

NoArgs ==
    [size |-> None, alignment_bits |-> None, page_type |-> None,
     sequential_page_count |-> 1, VA_eq_PA |-> FALSE]

\* The record of a call: what was asked, and what came of it.
CallRecord(op, mmu, args) ==
    [op |-> op, mmu |-> mmu, args |-> args, outcome |-> "ok", error |-> "none",
     cause |-> "none", size |-> "none", alignment_bits |-> 0, full_size |-> 0,
     va_start |-> 0, pa_start |-> 0, result |-> <<>>,
     returned |-> [type |-> "none", pages |-> <<>>]]

Failed(call, error, cause) ==
    [call EXCEPT !.outcome = "error", !.error = error, !.cause = cause]

\* MMU.__init__ for every MMU, and the managers as constructed.
MmuInit ==
    /\ unmapped_va_intervals = [m \in MMUS |-> IntervalLib(VA_RANGE_ADDRESS, VA_RANGE_BYTE_SIZE)]
    /\ mapped_va_intervals = [m \in MMUS |-> IntervalLib(0, 0)]
    /\ unmapped_pa_intervals = IntervalLib(PA_RANGE_ADDRESS, PA_RANGE_BYTE_SIZE)
    /\ page_table_entries = [m \in MMUS |-> <<>>]
    /\ page_table_entries_by_type = [m \in MMUS |-> [t \in Page_types |-> <<>>]]
    /\ active_state \in StateNames
    /\ va_reservations = [m \in MMUS |-> EmptyBag]
    /\ pa_reservations = EmptyBag
    /\ tracker_removals = <<>>
    /\ last_call = CallRecord("init", "none", NoArgs)

(***************************************************************************)
(* The trackers' and the MMU manager's operations on the state record.     *)
(***************************************************************************)
Reserved(start, size) == SetToBag({[start |-> start, size |-> size]})

\* One removal from a free pool: the tracker, the tracker call that made it and
\* the range.
Removal(pool, tracker_op, start, size) ==
    [pool |-> pool, tracker_op |-> tracker_op, start |-> start, size |-> size]

\* The search alone: the range it decided on stays in the free pool.
FindAndRemove_NotRemoved(intervals, size, alignment) ==
    {[start |-> s, intervals |-> intervals] : s \in FindRegion(intervals, size, alignment)}

\* find_and_remove(size, alignment_bits): find_region, then the range found is
\* taken out of the free pool; each start it may return with the pool it
\* leaves, empty when it fails.
FindAndRemove(intervals, size, alignment) ==
    {[start |-> s, intervals |-> RemoveRegion(intervals, s, size)] :
        s \in FindRegion(intervals, size, alignment)}

\* mmu.unmapped_va_intervals.find_and_remove(size, alignment_bits): the states it
\* may leave, each with the start it returns; empty when it fails.
FindAndRemoveVA(st, mmu, size, alignment_bits) ==
    {[start |-> r.start,
      st |-> [st EXCEPT !.uva[mmu] = r.intervals,
                        !.va_res[mmu] = @ (+) Reserved(r.start, size),
                        !.removals = Append(@, Removal(<<"va", mmu>>, "find_and_remove",
                                                       r.start, size))]] :
        r \in FindAndRemove(st.uva[mmu], size, Alignment(alignment_bits))}

\* mmu_manager.allocate_pa_interval(size, alignment_bits)
AllocatePaInterval(st, size, alignment_bits) ==
    {[start |-> r.start,
      st |-> [st EXCEPT !.upa = r.intervals,
                        !.pa_res = @ (+) Reserved(r.start, size),
                        !.removals = Append(@, Removal(<<"pa", "all">>, "find_and_remove",
                                                       r.start, size))]] :
        r \in FindAndRemove(st.upa, size, Alignment(alignment_bits))}

\* mmu_manager.map_va_to_pa(mmu, va, pa, size, page_type): the VA range is in the
\* mapped tracker afterwards and not in the unmapped one; the PA tracker is not touched.
MapVaToPa(st, mmu, va, pa, size, page_type) ==
    [st EXCEPT !.mva[mmu] = AddRegion(@, va, size, page_type),
               !.uva[mmu] = IF IsRegionAvailable(@, va, size)
                            THEN RemoveRegion(@, va, size) ELSE @]

(***************************************************************************)
(* MMU._find_va_eq_pa_unmapped_region                                      *)
(***************************************************************************)
Max(a, b) == IF a >= b THEN a ELSE b
Min(a, b) == IF a <= b THEN a ELSE b

\* The pairwise intersections of a free VA span with a free PA span that are at
\* least size_bytes long.
MatchingRegions(va_intervals, pa_intervals, size_bytes) ==
    LET overlap_start(v, q) == Max(v.start, q.start)
        overlap_end(v, q) == Min(v.start + v.size - 1, q.start + q.size - 1)
    IN {[start |-> overlap_start(va_intervals[i], pa_intervals[j]),
         size  |-> overlap_end(va_intervals[i], pa_intervals[j])
                     - overlap_start(va_intervals[i], pa_intervals[j]) + 1] :
          <<i, j>> \in {<<k, l>> \in (1..Len(va_intervals)) \X (1..Len(pa_intervals)) :
              /\ overlap_start(va_intervals[k], pa_intervals[l])
                   <= overlap_end(va_intervals[k], pa_intervals[l])
              /\ overlap_end(va_intervals[k], pa_intervals[l])
                   - overlap_start(va_intervals[k], pa_intervals[l]) + 1 >= size_bytes}}

\* Every matching region taken for suitable, with its first and last aligned
\* address.
SuitableIntervals_Unchecked(matching_regions, size_bytes, alignment_bits) ==
    LET alignment == IF IsNone(alignment_bits) THEN 1 ELSE Alignment(Val(alignment_bits))
    IN {[region_start |-> r.start, region_size |-> r.size,
         first_aligned |-> AlignUp(r.start, alignment),
         last_aligned |-> AlignUp(r.start, alignment)] : r \in matching_regions}

\* The matching regions that hold an aligned start, each with its first and last.
SuitableIntervals(matching_regions, size_bytes, alignment_bits) ==
    IF ~IsNone(alignment_bits)
    THEN LET alignment == Alignment(Val(alignment_bits))
             first_aligned(r) == AlignUp(r.start, alignment)
             last_aligned(r) == AlignDown(r.start + r.size - size_bytes, alignment)
         IN {[region_start |-> r.start, region_size |-> r.size,
              first_aligned |-> first_aligned(r), last_aligned |-> last_aligned(r)] :
               r \in {x \in matching_regions :
                        /\ first_aligned(x) <= last_aligned(x)
                        /\ first_aligned(x) + size_bytes <= x.start + x.size}}
    ELSE {[region_start |-> r.start, region_size |-> r.size,
           first_aligned |-> r.start, last_aligned |-> r.start + r.size - size_bytes] :
            r \in matching_regions}

\* The draw without regard to the alignment.
ChosenStarts_Unaligned(interval, size_bytes, alignment_bits) ==
    RandInt(interval.region_start,
            interval.region_start + interval.region_size - size_bytes)

\* The start drawn inside the chosen interval.
ChosenStarts(interval, size_bytes, alignment_bits) ==
    IF ~IsNone(alignment_bits) /\ Val(alignment_bits) > 0
    THEN IF interval.first_aligned # interval.last_aligned
         THEN LET alignment == Alignment(Val(alignment_bits))
                  count == ((interval.last_aligned - interval.first_aligned) \div alignment) + 1
              IN {interval.first_aligned + k * alignment : k \in RandInt(0, count - 1)}
         ELSE {interval.first_aligned}
    ELSE RandInt(interval.region_start,
                 interval.region_start + interval.region_size - size_bytes)

\* The search looking at the free VA only, the free PA left out of the match.
FindVaEqPaUnmappedRegion_VaOnly(va_intervals, pa_intervals, size_bytes, alignment_bits) ==
    UNION {ChosenStarts(interval, size_bytes, alignment_bits) :
             interval \in SuitableIntervals(
                 MatchingRegions(va_intervals, va_intervals, size_bytes),
                 size_bytes, alignment_bits)}

\* The va_start values the search may return (pa_start = va_start); empty when it
\* raises for want of a region.
FindVaEqPaUnmappedRegion(va_intervals, pa_intervals, size_bytes, alignment_bits) ==
    UNION {ChosenStarts(interval, size_bytes, alignment_bits) :
             interval \in SuitableIntervals(
                 MatchingRegions(va_intervals, pa_intervals, size_bytes),
                 size_bytes, alignment_bits)}

\* A slip in the VA=PA constraint: the next address.
IdentityPaStart_Shifted(va_start) == va_start + 1

\* pa_start = va_start  # VA=PA constraint
IdentityPaStart(va_start) == va_start

(***************************************************************************)
(* MMU.allocate_page                                                       *)
(***************************************************************************)
\* The 1 GiB class taken as supported, in the check and in the choice.
ChosenSizes_With1G(size) ==
    IF IsNone(size) THEN {"SIZE_4K", "SIZE_2M", "SIZE_1G"} ELSE {Val(size)}

\* The size the call works with: the given one, or a random choice of 4 KiB and
\* 2 MiB; empty when the given size is rejected.
ChosenSizes(size) ==
    IF IsNone(size) THEN {"SIZE_4K", "SIZE_2M"}
    ELSE IF Val(size) \in {"SIZE_4K", "SIZE_2M"} THEN {Val(size)} ELSE {}

\* The alignment taken when the caller gives none.
DefaultAlignmentBits(size) ==
    CASE size = "SIZE_4K" -> ALIGN_BITS_4K
      [] size = "SIZE_2M" -> ALIGN_BITS_2M
      [] size = "SIZE_1G" -> ALIGN_BITS_1G

\* Every size held to the 4 KiB requirement.
AlignmentRejected_As4K(size, alignment_bits) == alignment_bits < ALIGN_BITS_4K

\* The caller's alignment is below what the page size requires.
AlignmentRejected(size, alignment_bits) ==
    \/ size = "SIZE_4K" /\ alignment_bits < ALIGN_BITS_4K
    \/ size = "SIZE_2M" /\ alignment_bits < ALIGN_BITS_2M
    \/ size = "SIZE_1G" /\ alignment_bits < ALIGN_BITS_1G

FullSizeBytes(size_bytes, sequential_page_count) ==
    IF sequential_page_count > 1 THEN size_bytes * sequential_page_count ELSE size_bytes

\* Page(va, pa, size, page_type, ..., is_cross_core)
Page(va, pa, size, page_type, is_cross_core) ==
    [va |-> va, pa |-> pa, size |-> size, page_type |-> page_type,
     is_cross_core |-> is_cross_core]

\* The offsets counted from one page on.
SequentialPages_FromOne(va_start, pa_start, size_bytes, page_type, sequential_page_count) ==
    [i \in 1..sequential_page_count |->
        Page(va_start + i * size_bytes, pa_start + i * size_bytes,
             size_bytes, page_type, FALSE)]

\* The page objects of the sequence, in order.
SequentialPages(va_start, pa_start, size_bytes, page_type, sequential_page_count) ==
    [i \in 1..sequential_page_count |->
        Page(va_start + (i - 1) * size_bytes, pa_start + (i - 1) * size_bytes,
             size_bytes, page_type, FALSE)]

\* return result[0] for one page, else return result: the value with its type.
ReturnValue(result, sequential_page_count) ==
    IF sequential_page_count = 1
    THEN [type |-> "Page", pages |-> <<result[1]>>]
    ELSE [type |-> "list", pages |-> result]

\* The page recorded in the page list alone.
AppendPage_ListOnly(st, mmu, page) ==
    [st EXCEPT !.pages[mmu] = Append(@, page)]

\* page_table_entries.append(page); page_table_entries_by_type[page.page_type].append(page)
AppendPage(st, mmu, page) ==
    [st EXCEPT !.pages[mmu] = Append(@, page),
               !.by_type[mmu][page.page_type] = Append(@, page)]

RECURSIVE AppendPages(_, _, _)
AppendPages(st, mmu, pages) ==
    IF pages = <<>> THEN st
    ELSE AppendPages(AppendPage(st, mmu, Head(pages)), mmu, Tail(pages))

\* Lines 295-321: the pages are created and recorded, and the call returns them.
CreatePages(st, mmu, call, va_start, pa_start, size_bytes) ==
    LET pages == SequentialPages(va_start, pa_start, size_bytes,
                                 Val(call.args.page_type), call.args.sequential_page_count)
    IN [st |-> AppendPages(st, mmu, pages),
        call |-> [call EXCEPT !.va_start = va_start, !.pa_start = pa_start,
                              !.result = pages,
                              !.returned = ReturnValue(
                                  pages, call.args.sequential_page_count)]]

\* self.unmapped_va_intervals.remove_region(va_start, size) of the identity path.
IdentityRemoveVA(st, mmu, va_start, size) ==
    [st EXCEPT !.uva[mmu] = RemoveRegion(@, va_start, size),
               !.va_res[mmu] = @ (+) Reserved(va_start, size),
               !.removals = Append(@, Removal(<<"va", mmu>>, "remove_region",
                                              va_start, size))]

\* The identity path without its removal from the PA tracker.
IdentityRemovePA_NotRemoved(st, pa_start, size) ==
    [st EXCEPT !.pa_res = @ (+) Reserved(pa_start, size)]

\* mmu_manager.unmapped_pa_intervals.remove_region(pa_start, size) of the identity path.
IdentityRemovePA(st, pa_start, size) ==
    [st EXCEPT !.upa = RemoveRegion(@, pa_start, size),
               !.pa_res = @ (+) Reserved(pa_start, size),
               !.removals = Append(@, Removal(<<"pa", "all">>, "remove_region",
                                              pa_start, size))]

\* Lines 248-271: the VA=PA path.
IdentityPath(st, mmu, call, size_bytes) ==
    LET starts == FindVaEqPaUnmappedRegion(st.uva[mmu], st.upa, call.full_size,
                                           Some(call.alignment_bits))
        at(va_start) ==
            LET pa_start == IdentityPaStart(va_start)
                size == call.full_size
            IN IF ~IsRegionAvailable(st.uva[mmu], va_start, size)
               THEN [st |-> st, call |-> Failed(call, "AllocationFailed", "RegionNotFree")]
               ELSE LET st1 == IdentityRemoveVA(st, mmu, va_start, size)
                    IN IF ~IsRegionAvailable(st1.upa, pa_start, size)
                       THEN [st |-> st1,
                             call |-> Failed(call, "AllocationFailed", "RegionNotFree")]
                       ELSE CreatePages(
                                MapVaToPa(IdentityRemovePA(st1, pa_start, size), mmu,
                                          va_start, pa_start, size, Val(call.args.page_type)),
                                mmu, call, va_start, pa_start, size_bytes)
    IN IF starts = {}
       THEN {[st |-> st, call |-> Failed(call, "AllocationFailed", "NoIdentityRegion")]}
       ELSE {at(va_start) : va_start \in starts}

\* The VA taken in two calls, find_region and then remove_region.
NonIdentityPath_SearchThenRemove(st, mmu, call, size_bytes) ==
    LET vas == {[start |-> s, st |-> IdentityRemoveVA(st, mmu, s, call.full_size)] :
                  s \in FindRegion(st.uva[mmu], call.full_size,
                                   Alignment(call.alignment_bits))}
        after(va) ==
            LET pas == AllocatePaInterval(va.st, call.full_size, call.alignment_bits)
            IN IF pas = {}
               THEN {[st |-> va.st, call |-> Failed(call, "AllocationFailed", "OutOfSpacePA")]}
               ELSE {CreatePages(
                         MapVaToPa(pa.st, mmu, va.start, pa.start, call.full_size,
                                   Val(call.args.page_type)),
                         mmu, call, va.start, pa.start, size_bytes) : pa \in pas}
    IN IF vas = {}
       THEN {[st |-> st, call |-> Failed(call, "AllocationFailed", "OutOfSpaceVA")]}
       ELSE UNION {after(va) : va \in vas}

\* Lines 273-289: VA from this MMU's unmapped tracker, then PA from the manager's.
NonIdentityPath(st, mmu, call, size_bytes) ==
    LET vas == FindAndRemoveVA(st, mmu, call.full_size, call.alignment_bits)
        after(va) ==
            LET pas == AllocatePaInterval(va.st, call.full_size, call.alignment_bits)
            IN IF pas = {}
               THEN {[st |-> va.st, call |-> Failed(call, "AllocationFailed", "OutOfSpacePA")]}
               ELSE {CreatePages(
                         MapVaToPa(pa.st, mmu, va.start, pa.start, call.full_size,
                                   Val(call.args.page_type)),
                         mmu, call, va.start, pa.start, size_bytes) : pa \in pas}
    IN IF vas = {}
       THEN {[st |-> st, call |-> Failed(call, "AllocationFailed", "OutOfSpaceVA")]}
       ELSE UNION {after(va) : va \in vas}

\* The two checks in the other order.
ValidationError_TypeFirst(size, args) ==
    IF IsNone(args.page_type) THEN "MissingPageType"
    ELSE IF ~IsNone(args.alignment_bits) /\ AlignmentRejected(size, Val(args.alignment_bits))
    THEN "InsufficientAlignment" ELSE "none"

\* Lines 202-211: the check that rejects the call, "none" when none does.
ValidationError(size, args) ==
    IF ~IsNone(args.alignment_bits) /\ AlignmentRejected(size, Val(args.alignment_bits))
    THEN "InsufficientAlignment"
    ELSE IF IsNone(args.page_type) THEN "MissingPageType" ELSE "none"

\* allocate_page once the size is settled: lines 195-321.
AllocatePageOfSize(st, mmu, args, size) ==
    LET call0 == [CallRecord("allocate_page", mmu, args) EXCEPT !.size = size]
    IN IF ValidationError(size, args) # "none"
       THEN {[st |-> st, call |-> Failed(call0, ValidationError(size, args), "none")]}
       ELSE LET alignment_bits == IF IsNone(args.alignment_bits)
                                  THEN DefaultAlignmentBits(size)
                                  ELSE Val(args.alignment_bits)
                size_bytes == PageSizeValue(size)
                call == [call0 EXCEPT
                           !.alignment_bits = alignment_bits,
                           !.full_size = FullSizeBytes(size_bytes, args.sequential_page_count)]
            IN IF args.VA_eq_PA
               THEN IdentityPath(st, mmu, call, size_bytes)
               ELSE NonIdentityPath(st, mmu, call, size_bytes)

\* allocate_page: every outcome [st, call] the call may have from state st.
AllocatePageOutcomes(st, mmu, args) ==
    IF ChosenSizes(args.size) = {}
    THEN {[st |-> st, call |-> Failed(CallRecord("allocate_page", mmu, args),
                                      "InvalidSize", "none")]}
    ELSE UNION {AllocatePageOfSize(st, mmu, args, size) : size \in ChosenSizes(args.size)}

(***************************************************************************)
(* MMU.allocate_cross_core_page                                            *)
(***************************************************************************)
\* The loops `for state_name in get_all_states()` / `for mmu in core_mmus`,
\* flattened in iteration order.
RECURSIVE ContextsFrom(_)
ContextsFrom(i) ==
    IF i > Len(AllStates) THEN <<>>
    ELSE [k \in 1..Len(CoreMmus(AllStates[i])) |->
             [state_name |-> AllStates[i], mmu |-> CoreMmus(AllStates[i])[k]]]
         \o ContextsFrom(i + 1)

CrossCoreContexts == ContextsFrom(1)

\* size = SIZE_2M, page_type = TYPE_DATA: the hard-coded policy.
CROSS_CORE_SIZE == "SIZE_2M"
CROSS_CORE_PAGE_TYPE == "TYPE_DATA"

\* What the handler does to the active state once the loop has ended normally
\* (line 394).
RestoreAfterLoop(st, orig_state) == [st EXCEPT !.active = orig_state]

\* What is done to the active state when the loop raises (lines 396-398).
RestoreOnError(st, orig_state) == st

\* The page recorded without its cross-core mark.
CrossCoreMap_Unmarked(st, mmu, va_start, pa_start, size_bytes) ==
    AppendPage(MapVaToPa(st, mmu, va_start, pa_start, size_bytes, CROSS_CORE_PAGE_TYPE),
               mmu, Page(va_start, pa_start, size_bytes, CROSS_CORE_PAGE_TYPE, FALSE))

\* The page recorded without the mapping call.
CrossCoreMap_NotMapped(st, mmu, va_start, pa_start, size_bytes) ==
    AppendPage(st, mmu, Page(va_start, pa_start, size_bytes, CROSS_CORE_PAGE_TYPE, TRUE))

\* Lines 367-389: one MMU's share of the cross-core page.
CrossCoreMap(st, mmu, va_start, pa_start, size_bytes) ==
    AppendPage(MapVaToPa(st, mmu, va_start, pa_start, size_bytes, CROSS_CORE_PAGE_TYPE),
               mmu, Page(va_start, pa_start, size_bytes, CROSS_CORE_PAGE_TYPE, TRUE))

\* Lines 360-394: the loop from its k-th context on.
RECURSIVE CrossCoreLoop(_, _, _, _)
CrossCoreLoop(st, call, orig_state, k) ==
    IF k > Len(CrossCoreContexts)
    THEN {[st |-> RestoreAfterLoop(st, orig_state), call |-> call]}
    ELSE LET ctx == CrossCoreContexts[k]
             st1 == [st EXCEPT !.active = ctx.state_name]
             vas == FindAndRemoveVA(st1, ctx.mmu, call.full_size, call.alignment_bits)
         IN IF vas = {}
            THEN {[st |-> RestoreOnError(st1, orig_state),
                   call |-> Failed(call, "AllocationFailed", "OutOfSpaceVA")]}
            ELSE UNION {CrossCoreLoop(
                            CrossCoreMap(va.st, ctx.mmu, va.start, call.pa_start,
                                         call.full_size),
                            call, orig_state, k + 1) : va \in vas}

\* allocate_cross_core_page: every outcome [st, call] from state st.
AllocateCrossCorePageOutcomes(st, mmu) ==
    LET size_bytes == PageSizeValue(CROSS_CORE_SIZE)
        call == [CallRecord("allocate_cross_core_page", mmu, NoArgs) EXCEPT
                    !.size = CROSS_CORE_SIZE,
                    !.alignment_bits = DefaultAlignmentBits(CROSS_CORE_SIZE),
                    !.full_size = size_bytes]
        pas == AllocatePaInterval(st, size_bytes, call.alignment_bits)
    IN IF pas = {}
       THEN {[st |-> st, call |-> Failed(call, "AllocationFailed", "OutOfSpacePA")]}
       ELSE UNION {CrossCoreLoop(pa.st, [call EXCEPT !.pa_start = pa.start],
                                 st.active, 1) : pa \in pas}

(***************************************************************************)
(* The queries of an MMU: each gives the state it leaves and the value it  *)
(* returns.                                                                *)
(***************************************************************************)
Queried(st, op, mmu, args, returned) ==
    [st |-> st,
     call |-> [CallRecord(op, mmu, args) EXCEPT !.returned = returned]]

\* The region searched and taken out of the free pool.
FindAvailableRegion_Removes(st, mmu, args) ==
    LET alignment == IF IsNone(args.alignment_bits) THEN 1
                     ELSE Alignment(Val(args.alignment_bits))
        found == FindAndRemove(st.uva[mmu], args.size, alignment)
    IN IF found = {}
       THEN {Queried(st, "find_available_region", mmu, args, [type |-> "None"])}
       ELSE {Queried([st EXCEPT !.uva[mmu] = region.intervals],
                     "find_available_region", mmu, args,
                     [type |-> "tuple", start |-> region.start, size |-> args.size]) :
               region \in found}

\* find_available_region(size, alignment_bits): find_region on the unmapped VA
\* of the MMU, None for its ValueError.
FindAvailableRegion(st, mmu, args) ==
    LET alignment == IF IsNone(args.alignment_bits) THEN 1
                     ELSE Alignment(Val(args.alignment_bits))
        starts == FindRegion(st.uva[mmu], args.size, alignment)
    IN IF starts = {}
       THEN {Queried(st, "find_available_region", mmu, args, [type |-> "None"])}
       ELSE {Queried(st, "find_available_region", mmu, args,
                     [type |-> "tuple", start |-> start, size |-> args.size]) :
               start \in starts}

\* is_mapped(va_addr, size)
IsMapped(st, mmu, args) ==
    {Queried(st, "is_mapped", mmu, args,
             [type |-> "bool",
              value |-> ~IsRegionAvailable(st.uva[mmu], args.va_addr, args.size)])}

\* is_allocated(va_addr, size): a page of the list overlaps the range.
IsAllocated(st, mmu, args) ==
    LET va_end == args.va_addr + args.size - 1
    IN {Queried(st, "is_allocated", mmu, args,
                [type |-> "bool",
                 value |-> \E i \in 1..Len(st.pages[mmu]) :
                              /\ st.pages[mmu][i].va <= va_end
                              /\ st.pages[mmu][i].va + st.pages[mmu][i].size - 1
                                   >= args.va_addr])}

\* get_pages()
GetPages(st, mmu, args) ==
    {Queried(st, "get_pages", mmu, args, [type |-> "list", pages |-> st.pages[mmu]])}

\* get_pages_by_type(page_type)
GetPagesByType(st, mmu, args) ==
    {Queried(st, "get_pages_by_type", mmu, args,
             [type |-> "list", pages |-> st.by_type[mmu][args.page_type]])}

\* get_memory_stats(): the numbers of regions and of pages.
GetMemoryStats(st, mmu, args) ==
    {Queried(st, "get_memory_stats", mmu, args,
             [type |-> "dict",
              unmapped_regions |-> Len(st.uva[mmu]),
              mapped_regions |-> Len(st.mva[mmu]),
              total |-> Len(st.pages[mmu]),
              code |-> Len(st.by_type[mmu]["TYPE_CODE"]),
              data |-> Len(st.by_type[mmu]["TYPE_DATA"]),
              device |-> Len(st.by_type[mmu]["TYPE_DEVICE"]),
              system |-> Len(st.by_type[mmu]["TYPE_SYSTEM"])])}

QueryOps == {"find_available_region", "is_mapped", "is_allocated", "get_pages",
             "get_pages_by_type", "get_memory_stats"}

\* The arguments of the queries: a page of either size at either alignment;
\* the first or the last page of the VA range, or the whole range; a type.
FindAvailableRegionArgs ==
    [size : {PageSizeValue("SIZE_4K"), PageSizeValue("SIZE_2M")},
     alignment_bits : {None, Some(ALIGN_BITS_2M)}]

RegionArgs ==
    [va_addr : {VA_RANGE_ADDRESS,
                VA_RANGE_ADDRESS + VA_RANGE_BYTE_SIZE - PageSizeValue("SIZE_4K")},
     size : {PageSizeValue("SIZE_4K")}]
      \cup [va_addr : {VA_RANGE_ADDRESS}, size : {VA_RANGE_BYTE_SIZE}]

PageTypeQueryArgs == [page_type : {"TYPE_DATA", "TYPE_CODE"}]

QueryOutcomes(st, mmu) ==
    UNION ({FindAvailableRegion(st, mmu, args) : args \in FindAvailableRegionArgs}
           \cup {IsMapped(st, mmu, args) : args \in RegionArgs}
           \cup {IsAllocated(st, mmu, args) : args \in RegionArgs}
           \cup {GetPages(st, mmu, NoArgs), GetMemoryStats(st, mmu, NoArgs)}
           \cup {GetPagesByType(st, mmu, args) : args \in PageTypeQueryArgs})

(***************************************************************************)
(* The calls a run makes.                                                  *)
(***************************************************************************)
SizeArgs == {None, Some("SIZE_4K"), Some("SIZE_2M"), Some("SIZE_1G")}
AlignmentBitsArgs == {None, Some(8), Some(13), Some(21)}
PageTypeArgs == {None, Some("TYPE_DATA"), Some("TYPE_CODE")}
SequentialPageCountArgs == {0, 1, 2}

\* Every combination of arguments: the calls of the runs that study how
\* allocate_page treats its arguments.
AllocatePageArgs ==
    [size : SizeArgs, alignment_bits : AlignmentBitsArgs, page_type : PageTypeArgs,
     sequential_page_count : SequentialPageCountArgs, VA_eq_PA : BOOLEAN]

\* One data page of either size, identity-mapped or not: the calls of the longer
\* runs, which study the trackers.
PlacementArgs ==
    [size : {Some("SIZE_4K"), Some("SIZE_2M")}, alignment_bits : {None},
     page_type : {Some("TYPE_DATA")}, sequential_page_count : {1}, VA_eq_PA : BOOLEAN]

(***************************************************************************)
(* Memory (memory_operand.py): the construction of a memory operand over   *)
(* the memory blocks.  Sizes, offsets and addresses are in bytes here.     *)
(***************************************************************************)
VARIABLES
    memory_blocks,      \* Seq(MemoryBlock): the blocks allocated so far
    memory_count,       \* the number of operands constructed so far
    memory_operands,    \* what each operand constructed refers to: block, offset, size
    memory_capacity,    \* the number of blocks the data segment has room for
    memory_initial_seed_id, \* Memory._memory_initial_seed_id, the counter behind the labels
    last_memory         \* the construction just asked: its arguments, its outcome
                        \* and the Memory it made

mem_vars == <<memory_blocks, memory_count, memory_operands, memory_capacity,
              memory_initial_seed_id, last_memory>>

VALID_SIZES == {1, 2, 4, 8}

reuse_memory_probability == 50

\* choice.choice(values={0:10, 1:30, 2:60})
AlignmentChoices == {0, 1, 2}

\* choice.choice(values={0:50, random.randint(1, 10):45, random.randint(10, 20):5})
ByteSizeExtensions == {0} \cup RandInt(1, 10) \cup RandInt(10, 20)

\* The reuse never tried.
ShouldReuse_Never == {FALSE}

\* rand_num = random.randint(0,100); should_reuse = rand_num < reuse_memory_probability
ShouldReuse == {rand_num < reuse_memory_probability : rand_num \in RandInt(0, 100)}

MemState ==
    [blocks |-> memory_blocks, count |-> memory_count, operands |-> memory_operands,
     seed_id |-> memory_initial_seed_id]

\* The arguments of Memory(...) as the caller leaves them.
DefaultMemoryArgs ==
    [name |-> None, address |-> None, byte_size |-> Some(8), shared |-> FALSE,
     init_value |-> None, memory_block |-> None, memory_block_offset |-> None,
     cross_core |-> FALSE, alignment |-> None, memory_type |-> "WB"]

MemoryCall(args) ==
    [args |-> args, outcome |-> "ok", error |-> "none", result |-> None]

MemoryFailed(st, args, error) ==
    [st |-> st, call |-> [MemoryCall(args) EXCEPT !.outcome = "error", !.error = error]]

\* _memory_initial_seed_id = random.randint(1234, 5678)
InitialSeedIds == RandInt(1234, 5678)

\* self.name and self.unique_label of lines 53-55: "mem<id>" without a name,
\* "<name>_mem<id>" with one.
UniqueLabel(name, seed_id) == [name |-> name, mem |-> seed_id]

MemInit ==
    /\ memory_blocks = <<>>
    /\ memory_count = 0
    /\ memory_operands = <<>>
    /\ memory_initial_seed_id \in InitialSeedIds
    /\ last_memory = MemoryCall(DefaultMemoryArgs)

\* The addresses a new block may get: a slot of its own, the block starting on
\* a 64-byte boundary or one byte after it.  The runs stop short of one block
\* more than the segment has room for: there is no address for it.
NewBlockAddresses(blocks) ==
    LET slot == Pow2(12) + Pow2(6) * Len(blocks)
    IN IF Len(blocks) < memory_capacity THEN {slot, slot + 1} ELSE {}

\* The physical address of a block at a virtual address, in a page whose PA is
\* 2 MiB above its VA.
NewBlockPaAddresses(address) == {address + Pow2(21)}

\* MemoryBlock(byte_size=..., shared=..., cross_core=...), as far as Memory reads it.
MemoryBlock(name, byte_size, memory_type, shared, cross_core, address, pa_address) ==
    [label |-> name, byte_size |-> byte_size, memory_type |-> memory_type,
     shared |-> shared, cross_core |-> cross_core,
     address |-> address, pa_address |-> pa_address]

\* The blocks a new MemoryBlock of these attributes may be.
NewMemoryBlocks(blocks, name, byte_size, memory_type, shared, cross_core) ==
    UNION { { MemoryBlock(name, byte_size, memory_type, shared, cross_core,
                          address, pa_address) :
                pa_address \in NewBlockPaAddresses(address) } :
            address \in NewBlockAddresses(blocks) }

\* get_used_memory_block(segment_manager, byte_size=byte_size, alignment=alignment):
\* a shared block already allocated that is large enough for the size asked,
\* None when there is none.
GetUsedMemoryBlock(blocks, byte_size, alignment) ==
    LET used == { i \in 1..Len(blocks) :
                    /\ blocks[i].shared
                    /\ (IsNone(byte_size) \/ blocks[i].byte_size >= Val(byte_size)) }
    IN IF used = {} THEN {None} ELSE {Some(i) : i \in used}

\* Lines 69-90: the input checking on address, memory_block and its offset.
InputError(blocks, args) ==
    IF ~IsNone(args.address) THEN "AddressConstraint"
    ELSE IF IsNone(args.memory_block)
    THEN IF ~IsNone(args.memory_block_offset) THEN "OffsetWithoutBlock" ELSE "none"
    ELSE LET memory_block == blocks[Val(args.memory_block)] IN
         IF IsNone(args.memory_block_offset) THEN "OffsetRequired"
         ELSE IF ~IsNone(args.init_value) THEN "InitValueWithBlock"
         ELSE IF IsNone(args.byte_size) THEN "TypeError"
         ELSE IF Val(args.byte_size) > memory_block.byte_size THEN "ByteSizeExceedsBlock"
         ELSE IF Val(args.memory_block_offset) < 0 THEN "NegativeOffset"
         ELSE IF Val(args.memory_block_offset) + Val(args.byte_size) > memory_block.byte_size
         THEN "OffsetExceedsBlock"
         ELSE "none"

\* The check on init_value alone.
SharedError_InitOnly(args) ==
    IF ~IsNone(args.init_value) /\ args.shared THEN "InitValueShared" ELSE "none"

\* Lines 94-99: what a shared memory may not be.
SharedError(args) ==
    IF ~IsNone(args.init_value) /\ args.shared THEN "InitValueShared"
    ELSE IF args.cross_core /\ args.shared THEN "CrossCoreShared"
    ELSE "none"

\* Lines 101-103: self.byte_size = random.choice(VALID_SIZES) when none is given.
ChosenByteSizes(byte_size) == IF IsNone(byte_size) THEN VALID_SIZES ELSE {Val(byte_size)}

\* Lines 109-112: the alignment drawn when none is given.
ChosenAlignments(alignment) ==
    IF IsNone(alignment) THEN AlignmentChoices ELSE {Val(alignment)}

\* The base of the block taken for its first aligned address.
FirstAlignedAddr_BlockBase(block_base_addr, alignment) == block_base_addr

\* Line 143: the first aligned address within the block.
FirstAlignedAddr(block_base_addr, alignment) ==
    ((block_base_addr + alignment - 1) \div alignment) * alignment

\* The aligned offset taken whether or not it leaves room for the operand.
ReuseOffsets_Unchecked(memory_block, byte_size, alignment) ==
    LET max_offset == memory_block.byte_size - byte_size
        first_aligned_addr ==
            ((memory_block.address + alignment - 1) \div alignment) * alignment
    IN IF alignment > 1 THEN {first_aligned_addr - memory_block.address}
       ELSE IF max_offset > 0 THEN RandInt(0, max_offset) ELSE {0}

\* Lines 140-165: the offsets a reused block may be entered at.
ReuseOffsets(memory_block, byte_size, alignment) ==
    LET max_offset == memory_block.byte_size - byte_size
    IN IF alignment > 1
       THEN LET block_base_addr == memory_block.address
                first_aligned_addr == FirstAlignedAddr(block_base_addr, alignment)
                min_offset == first_aligned_addr - block_base_addr
            IN IF min_offset + byte_size <= max_offset + byte_size
               THEN LET remaining_space ==
                            (max_offset + byte_size) - (min_offset + byte_size)
                        additional_positions == remaining_space \div alignment
                    IN IF additional_positions > 0
                       THEN { min_offset + chosen_position * alignment :
                                chosen_position \in RandInt(0, additional_positions) }
                       ELSE {min_offset}
               ELSE {0}
       ELSE IF max_offset > 0 THEN RandInt(0, max_offset) ELSE {0}

\* The aligned position counted from the size of the block, not from its slack.
FreshOffsets_FromBlockSize(new_byte_size, byte_size, alignment) ==
    IF alignment > 1
    THEN LET max_aligned_positions == new_byte_size \div alignment
         IN IF max_aligned_positions > 0
            THEN { aligned_position * alignment :
                     aligned_position \in RandInt(0, max_aligned_positions) }
            ELSE {0}
    ELSE RandInt(0, new_byte_size - byte_size)

\* Lines 176-188: the offsets inside a new shared block.
FreshOffsets(new_byte_size, byte_size, alignment) ==
    LET max_offset == new_byte_size - byte_size
    IN IF alignment > 1
       THEN LET max_aligned_positions == max_offset \div alignment
            IN IF max_aligned_positions > 0
               THEN { aligned_position * alignment :
                        aligned_position \in RandInt(0, max_aligned_positions) }
               ELSE {0}
       ELSE RandInt(0, max_offset)

\* memory_block.get_address() while the named state is active: a cross-core
\* block is bound at a virtual address of its own in every state, 64 KiB apart
\* here; any other block has the one address.
BlockGetAddress(memory_block, state_name) ==
    IF memory_block.cross_core
    THEN memory_block.address
           + Pow2(16) * ((CHOOSE i \in 1..Len(AllStates) : AllStates[i] = state_name) - 1)
    ELSE memory_block.address

\* memory_block.get_pa_address(): the physical address is the same in every state.
BlockGetPaAddress(memory_block, state_name) == memory_block.pa_address

\* The operand as lines 208-210 complete it.
Memory(blocks, memory_block, memory_block_offset, byte_size, shared, alignment, reused_memory, memory_type, unique_label) ==
    [memory_block |-> memory_block, memory_block_offset |-> memory_block_offset,
     byte_size |-> byte_size, shared |-> shared, alignment |-> alignment,
     reused_memory |-> reused_memory,
     memory_type |-> memory_type, unique_label |-> unique_label,
     address |-> BlockGetAddress(blocks[memory_block], active_state)
                   + memory_block_offset,
     pa_address |-> BlockGetPaAddress(blocks[memory_block], active_state)
                      + memory_block_offset,
     cross_core |-> blocks[memory_block].cross_core]

\* The block an operand stands in, where in it and how much of it.
Reference(operand) ==
    [memory_block |-> operand.memory_block,
     memory_block_offset |-> operand.memory_block_offset,
     byte_size |-> operand.byte_size]

\* The construction done: the caller has the operand.
Constructed(st, blocks, operand, args) ==
    [st |-> [st EXCEPT !.blocks = blocks, !.count = st.count + 1,
                       !.operands = Append(st.operands, Reference(operand))],
     call |-> [MemoryCall(args) EXCEPT !.result = Some(operand)]]

\* Lines 130-165: the reuse of a shared block, the empty set when none is found.
ReusePath(st, args, byte_size, alignment) ==
    UNION { IF IsNone(found) THEN {}
            ELSE IF byte_size > st.blocks[Val(found)].byte_size
            THEN {MemoryFailed(st, args, "InnerExceedsOuter")}
            ELSE { Constructed(st, st.blocks,
                               Memory(st.blocks, Val(found), memory_block_offset,
                                      byte_size, args.shared, alignment, TRUE,
                                      args.memory_type,
                                      UniqueLabel(args.name, st.seed_id)),
                               args) :
                     memory_block_offset \in
                        ReuseOffsets(st.blocks[Val(found)], byte_size, alignment) } :
            found \in GetUsedMemoryBlock(st.blocks, args.byte_size, alignment) }

\* Lines 167-188: a new shared block, with room for later operands or without.
FreshSharedPath(st, args, byte_size, alignment) ==
    UNION { UNION { { Constructed(st, Append(st.blocks, memory_block),
                                  Memory(Append(st.blocks, memory_block),
                                         Len(st.blocks) + 1, memory_block_offset,
                                         byte_size, args.shared, alignment, FALSE,
                                         args.memory_type,
                                         UniqueLabel(args.name, st.seed_id)),
                                  args) :
                        memory_block_offset \in
                           FreshOffsets(byte_size + byte_size_extension, byte_size,
                                        alignment) } :
                    memory_block \in
                       NewMemoryBlocks(st.blocks, UniqueLabel(args.name, st.seed_id),
                                       byte_size + byte_size_extension,
                                       args.memory_type, args.shared, FALSE) } :
            byte_size_extension \in ByteSizeExtensions }

\* Lines 189-195: a dedicated block of the operand's size.
DedicatedPath(st, args, byte_size, alignment) ==
    { Constructed(st, Append(st.blocks, memory_block),
                  Memory(Append(st.blocks, memory_block), Len(st.blocks) + 1, 0,
                         byte_size, args.shared, alignment, FALSE,
                         args.memory_type, memory_block.label),
                  args) :
        memory_block \in
           NewMemoryBlocks(st.blocks, UniqueLabel(args.name, st.seed_id), byte_size,
                           args.memory_type, args.shared, args.cross_core) }

\* The operand keeping the memory type and the label it was asked with.
ExplicitBlockPath_OwnType(st, args, byte_size, alignment) ==
    { Constructed(st, st.blocks,
                  Memory(st.blocks, Val(args.memory_block),
                         Val(args.memory_block_offset), byte_size, args.shared,
                         alignment, FALSE,
                         args.memory_type, UniqueLabel(args.name, st.seed_id)),
                  args) }

\* Lines 197-206: the operand inside the caller's block.
ExplicitBlockPath(st, args, byte_size, alignment) ==
    { Constructed(st, st.blocks,
                  Memory(st.blocks, Val(args.memory_block),
                         Val(args.memory_block_offset), byte_size, args.shared,
                         alignment, FALSE,
                         st.blocks[Val(args.memory_block)].memory_type,
                         st.blocks[Val(args.memory_block)].label),
                  args) }

\* The reuse tried whether or not the caller gave a name.
MemoryOfSize_ReuseNamed(st, args, byte_size, alignment) ==
    IF ~IsNone(args.memory_block) THEN ExplicitBlockPath(st, args, byte_size, alignment)
    ELSE IF ~args.shared THEN DedicatedPath(st, args, byte_size, alignment)
    ELSE UNION { LET reused ==
                        IF should_reuse /\ IsNone(args.address) /\ IsNone(args.init_value)
                        THEN ReusePath(st, args, byte_size, alignment) ELSE {}
                 IN IF reused # {} THEN reused
                    ELSE FreshSharedPath(st, args, byte_size, alignment) :
                 should_reuse \in ShouldReuse }

\* Lines 116-206 for the size and the alignment drawn.
MemoryOfSize(st, args, byte_size, alignment) ==
    IF ~IsNone(args.memory_block) THEN ExplicitBlockPath(st, args, byte_size, alignment)
    ELSE IF ~args.shared THEN DedicatedPath(st, args, byte_size, alignment)
    ELSE UNION { LET reused ==
                        IF should_reuse /\ IsNone(args.name) /\ IsNone(args.address)
                                        /\ IsNone(args.init_value)
                        THEN ReusePath(st, args, byte_size, alignment) ELSE {}
                 IN IF reused # {} THEN reused
                    ELSE FreshSharedPath(st, args, byte_size, alignment) :
                 should_reuse \in ShouldReuse }

\* Memory.__init__
MemoryOutcomes(st0, args) ==
    LET st == [st0 EXCEPT !.seed_id = @ + 1]
    IN
    IF InputError(st.blocks, args) # "none"
    THEN {MemoryFailed(st, args, InputError(st.blocks, args))}
    ELSE IF SharedError(args) # "none" THEN {MemoryFailed(st, args, SharedError(args))}
    ELSE IF ~IsNone(args.byte_size) /\ Val(args.byte_size) \notin VALID_SIZES
    THEN {MemoryFailed(st, args, "InvalidByteSize")}
    ELSE UNION { MemoryOfSize(st, args, byte_size, alignment) :
                   byte_size \in ChosenByteSizes(args.byte_size),
                   alignment \in ChosenAlignments(args.alignment) }

\* The constructions asked for: with an address; inside a block already
\* allocated, at an offset that fits or not; and allocating, the size drawn or
\* invalid, the alignment drawn or 4, shared or not, cross-core or not.
AddressMemoryArgs == {[DefaultMemoryArgs EXCEPT !.address = Some(Pow2(12))]}

ExplicitBlockMemoryArgs(blocks) ==
    { [DefaultMemoryArgs EXCEPT !.memory_block = Some(i), !.memory_block_offset = offset,
                                !.byte_size = byte_size] :
        i \in 1..Len(blocks), offset \in {Some(0 - 1), Some(0), Some(4)},
        byte_size \in {Some(1), Some(4), Some(8)} }

AllocatingMemoryArgs ==
    { [DefaultMemoryArgs EXCEPT !.byte_size = byte_size, !.shared = shared,
                                !.cross_core = cross_core, !.alignment = alignment] :
        byte_size \in {None, Some(3)}, shared \in BOOLEAN, cross_core \in BOOLEAN,
        alignment \in {None, Some(4)} }

MemoryArgs(blocks) ==
    AddressMemoryArgs \cup ExplicitBlockMemoryArgs(blocks) \cup AllocatingMemoryArgs

\* The constructions that set the scene for the checks of the arguments: the
\* default call, shared or not.
SetupMemoryArgs == {[DefaultMemoryArgs EXCEPT !.shared = shared] : shared \in BOOLEAN}

\* The arguments in combination: name, size, shared, init_value, cross_core,
\* alignment and a stray offset for an allocating call; block, offset, size,
\* init_value and shared for a call inside an allocated block; an address.
NameArgs == {None, Some("name")}
InitValueArgs == {None, Some(7)}

CombinedAllocatingArgs ==
    { [DefaultMemoryArgs EXCEPT !.name = name, !.byte_size = byte_size,
                                !.shared = shared, !.init_value = init_value,
                                !.cross_core = cross_core, !.alignment = alignment,
                                !.memory_block_offset = offset] :
        name \in NameArgs, byte_size \in {None, Some(8), Some(3)}, shared \in BOOLEAN,
        init_value \in InitValueArgs, cross_core \in BOOLEAN,
        alignment \in {None, Some(4)}, offset \in {None, Some(0)} }

CombinedBlockArgs(blocks) ==
    { [DefaultMemoryArgs EXCEPT !.memory_block = Some(i), !.memory_block_offset = offset,
                                !.byte_size = byte_size, !.init_value = init_value,
                                !.shared = shared, !.memory_type = memory_type,
                                !.name = name] :
        i \in 1..Len(blocks), offset \in {None, Some(0 - 1), Some(0), Some(4)},
        byte_size \in {None, Some(4), Some(8), Some(3)},
        init_value \in InitValueArgs, shared \in BOOLEAN,
        memory_type \in {"WB", "UC"}, name \in NameArgs }

CombinedAddressArgs ==
    { [DefaultMemoryArgs EXCEPT !.address = Some(Pow2(12)), !.name = name,
                                !.shared = shared] :
        name \in NameArgs, shared \in BOOLEAN }

CombinedMemoryArgs(blocks) ==
    CombinedAllocatingArgs \cup CombinedBlockArgs(blocks) \cup CombinedAddressArgs

\* The reads of an operand's addresses: the value returned and whether it was
\* worked out from the block at the read.
VARIABLES
    last_read           \* the last get_address() and get_pa_address() of an operand

NoRead ==
    [done |-> FALSE, active |-> "none",
     address |-> [value |-> 0, recomputed |-> FALSE],
     pa_address |-> [value |-> 0, recomputed |-> FALSE]]

\* Memory.get_address()
GetAddress(blocks, operand, state_name) ==
    IF operand.cross_core
    THEN [value |-> BlockGetAddress(blocks[operand.memory_block], state_name)
                      + operand.memory_block_offset,
          recomputed |-> TRUE]
    ELSE [value |-> operand.address, recomputed |-> FALSE]

\* Memory.get_pa_address(): return self._pa_address
GetPaAddress(blocks, operand, state_name) ==
    [value |-> operand.pa_address, recomputed |-> FALSE]

\* The labels of an operand: text as the sequence of its pieces, a number in
\* hexadecimal as the sequence of its characters.
VARIABLES
    last_label          \* the last format_reg_as_label() of an operand

read_vars == <<last_read, last_label>>

\* The architecture the configuration selects, "none" when it selects none of
\* the three.
Architectures == {"x86", "riscv", "arm", "none"}

Registers == {"r0", "r1"}

HexChars == <<"0", "1", "2", "3", "4", "5", "6", "7",
              "8", "9", "a", "b", "c", "d", "e", "f">>

RECURSIVE HexDigits(_)
HexDigits(n) ==
    IF n < 16 THEN <<HexChars[n + 1]>>
    ELSE HexDigits(n \div 16) \o <<HexChars[(n % 16) + 1]>>

\* f"{n:#x}"
Hex(n) == IF n < 0 THEN <<"-", "0", "x">> \o HexDigits(0 - n)
          ELSE <<"0", "x">> \o HexDigits(n)

\* byte_to_operand_size(byte_size): the x86 name of the size, None for the
\* ValueError on a size without one.
ByteToOperandSize(byte_size) ==
    CASE byte_size = 1 -> Some("byte")
      [] byte_size = 2 -> Some("word")
      [] byte_size = 4 -> Some("dword")
      [] byte_size = 8 -> Some("qword")
      [] byte_size = 16 -> Some("dqword")
      [] OTHER -> None

NoLabel ==
    [done |-> FALSE, architecture |-> "none", register |-> "none",
     returned |-> [outcome |-> "ok", error |-> "none", label |-> <<>>]]

Label(label) == [outcome |-> "ok", error |-> "none", label |-> label]
LabelFailed(error) == [outcome |-> "error", error |-> error, label |-> <<>>]

\* The RISC-V form without its offset when the offset is 0.
FormatRegAsLabel_RiscvOmitsZero(operand, register, architecture) ==
    LET memory_offset == operand.memory_block_offset
    IN IF architecture = "x86"
       THEN LET op_size_prefix == ByteToOperandSize(operand.byte_size)
                offset_str == IF memory_offset # 0
                              THEN <<" + ">> \o Hex(memory_offset) ELSE <<>>
            IN IF IsNone(op_size_prefix) THEN LabelFailed("UnsupportedByteSize")
               ELSE Label(<<Val(op_size_prefix), " [", register>> \o offset_str \o <<"]">>)
       ELSE IF architecture = "riscv"
       THEN LET offset_str == IF memory_offset # 0 THEN Hex(memory_offset) ELSE <<>>
            IN Label(offset_str \o <<"(", register, ")">>)
       ELSE IF architecture = "arm"
       THEN LET offset_str == IF memory_offset # 0
                              THEN <<",#">> \o Hex(memory_offset) ELSE <<>>
            IN Label(<<"[", register>> \o offset_str \o <<"]">>)
       ELSE LabelFailed("UnknownArchitecture")

\* Memory.format_reg_as_label(register)
FormatRegAsLabel(operand, register, architecture) ==
    LET memory_offset == operand.memory_block_offset
    IN IF architecture = "x86"
       THEN LET op_size_prefix == ByteToOperandSize(operand.byte_size)
                offset_str == IF memory_offset # 0
                              THEN <<" + ">> \o Hex(memory_offset) ELSE <<>>
            IN IF IsNone(op_size_prefix) THEN LabelFailed("UnsupportedByteSize")
               ELSE Label(<<Val(op_size_prefix), " [", register>> \o offset_str \o <<"]">>)
       ELSE IF architecture = "riscv"
       THEN Label(Hex(memory_offset) \o <<"(", register, ")">>)
       ELSE IF architecture = "arm"
       THEN LET offset_str == IF memory_offset # 0
                              THEN <<",#">> \o Hex(memory_offset) ELSE <<>>
            IN Label(<<"[", register>> \o offset_str \o <<"]">>)
       ELSE LabelFailed("UnknownArchitecture")

\* The memory arguments of the runs that format: a size drawn from
\* VALID_SIZES in a shared block, which may have room to spare.
LabelMemoryArgs ==
    {[DefaultMemoryArgs EXCEPT !.byte_size = None, !.shared = TRUE,
                               !.alignment = alignment] : alignment \in {Some(1)}}

\* The memory arguments of the runs that read: the default call, cross-core or not.
ReadMemoryArgs ==
    {[DefaultMemoryArgs EXCEPT !.cross_core = cross_core] : cross_core \in BOOLEAN}

(***************************************************************************)
(* A tracker on its own, in bytes: one free span and calls of               *)
(* find_and_remove on it.                                                  *)
(***************************************************************************)
VARIABLES
    tracker,            \* the free spans of the tracker
    tracker_returned,   \* the ranges find_and_remove has returned, in order
    tracker_call        \* the last call and what came of it

tracker_vars == <<tracker, tracker_returned, tracker_call>>

\* The scenario's span [0x1000, 0x1000 + 0x2000).
TRACKER_START == Pow2(12)
TRACKER_SIZE == Pow2(13)

\* The sizes and alignments asked of it: 0x100 at 8 bits is the scenario's call.
TrackerSizes == {Pow2(8), Pow2(12)}
TrackerAlignmentBits == {8, 9}

TrackerCall(size, alignment_bits) ==
    [size |-> size, alignment_bits |-> alignment_bits, outcome |-> "ok", start |-> 0]

TrackerInit ==
    /\ tracker = IntervalLib(TRACKER_START, TRACKER_SIZE)
    /\ tracker_returned = <<>>
    /\ tracker_call = TrackerCall(0, 0)

\* tracker.find_and_remove(size, alignment_bits=alignment_bits)
TrackerFindAndRemove(size, alignment_bits) ==
    LET found == FindAndRemove(tracker, size, Pow2(alignment_bits))
    IN IF found = {}
       THEN /\ tracker_call' = [TrackerCall(size, alignment_bits) EXCEPT
                                  !.outcome = "OutOfSpace"]
            /\ UNCHANGED <<tracker, tracker_returned>>
       ELSE \E r \in found :
               /\ tracker' = r.intervals
               /\ tracker_returned' = Append(tracker_returned,
                      [start |-> r.start, size |-> size, alignment_bits |-> alignment_bits])
               /\ tracker_call' = [TrackerCall(size, alignment_bits) EXCEPT
                                     !.start = r.start]

(***************************************************************************)
(* Trickbox (trickbox.py): write and read over the register manager of the *)
(* current state and the assembly lines emitted so far.                    *)
(***************************************************************************)
VARIABLES
    reserved_registers, \* the registers the register manager holds reserved
    asm_lines,          \* the lines AsmLogger.asm has emitted, in order
    trickbox_call       \* the last Trickbox call and what came of it

trickbox_vars == <<reserved_registers, asm_lines, trickbox_call>>

TRICKBOX_BASE_ADDRESS == 318767104

\* The general-purpose registers of the register manager, by number.
RegisterPool == {0, 1, 2}

\* Register.as_size: the same register under its name of that width.
AsSize(register, size) == [number |-> register, size |-> size]
Reg(register) == AsSize(register, 64)

\* TrickboxField.get_offset: the offset of a known field, an error otherwise.
FieldArgs == {"known_field", "unknown_field"}
GetOffset(field) == IF field = "known_field" THEN Some(0) ELSE None

\* The immediate values and the register of a call, each given or not.
ValueArgs == {None, Some(0), Some(1)}
RegisterArgs == {None} \cup {Some(register) : register \in RegisterPool}

NoTrickboxCall ==
    [number |-> 0, op |-> "none", outcome |-> "ok", error |-> "none",
     field |-> "none", value |-> None, register |-> None, architecture |-> "none",
     reserved_by_call |-> {}, freed_by_call |-> {}]

TrickboxInit ==
    /\ reserved_registers = {}
    /\ asm_lines = <<>>
    /\ trickbox_call = NoTrickboxCall

\* register_manager.get_and_reserve: any of the registers not reserved.
GetAndReserve(reserved) == RegisterPool \ reserved

\* register_manager.free.
Free(reserved, register) == reserved \ {register}

\* AsmLogger.asm of one instruction.
Asm(mnemonic, operands) == [mnemonic |-> mnemonic, operands |-> operands]

\* What a Trickbox call leaves: the reserved registers, the lines, the error.
TrickboxOutcome(reserved, lines, error, reserved_by_call, freed_by_call) ==
    [reserved |-> reserved, lines |-> lines,
     outcome |-> IF error = "none" THEN "ok" ELSE "error", error |-> error,
     reserved_by_call |-> reserved_by_call, freed_by_call |-> freed_by_call]

\* The lines of a write once both registers are held.
WriteLines(addr_reg, value_reg, target_address, value, register) ==
    <<Asm("ldr", <<Reg(addr_reg), target_address>>)>> \o
    (IF ~IsNone(value)
     THEN IF Val(value) = 0
          THEN <<Asm("str", <<"wzr", Reg(addr_reg)>>)>>
          ELSE <<Asm("mov", <<AsSize(value_reg, 32), Val(value)>>),
                 Asm("str", <<AsSize(value_reg, 32), Reg(addr_reg)>>)>>
     ELSE <<Asm("str", <<AsSize(Val(register), 32), Reg(addr_reg)>>)>>)

Write_ReservesFirst(reserved, lines, field, value, register, architecture) ==
    IF GetAndReserve(reserved) = {}
    THEN {TrickboxOutcome(reserved, lines, "NoFreeRegister", {}, {})}
    ELSE UNION {
        IF architecture # "arm"
        THEN {TrickboxOutcome(reserved \cup {addr_reg}, lines, "RuntimeError", {addr_reg}, {})}
        ELSE IF (IsNone(value) /\ IsNone(register)) \/ (~IsNone(value) /\ ~IsNone(register))
        THEN {TrickboxOutcome(reserved \cup {addr_reg}, lines, "ValueError", {addr_reg}, {})}
        ELSE IF IsNone(GetOffset(field))
        THEN {TrickboxOutcome(reserved \cup {addr_reg}, lines, "ValueError", {addr_reg}, {})}
        ELSE IF GetAndReserve(reserved \cup {addr_reg}) = {}
        THEN {TrickboxOutcome(reserved \cup {addr_reg}, lines, "NoFreeRegister",
                              {addr_reg}, {})}
        ELSE {TrickboxOutcome(
                  Free(Free(reserved \cup {addr_reg, value_reg}, addr_reg), value_reg),
                  lines \o WriteLines(addr_reg, value_reg,
                                      TRICKBOX_BASE_ADDRESS + Val(GetOffset(field)),
                                      value, register),
                  "none", {addr_reg, value_reg}, {addr_reg, value_reg}) :
              value_reg \in GetAndReserve(reserved \cup {addr_reg})}
        : addr_reg \in GetAndReserve(reserved)}

\* Trickbox.write.
Write(reserved, lines, field, value, register, architecture) ==
    IF architecture # "arm"
    THEN {TrickboxOutcome(reserved, lines, "RuntimeError", {}, {})}
    ELSE IF (IsNone(value) /\ IsNone(register)) \/ (~IsNone(value) /\ ~IsNone(register))
    THEN {TrickboxOutcome(reserved, lines, "ValueError", {}, {})}
    ELSE IF IsNone(GetOffset(field))
    THEN {TrickboxOutcome(reserved, lines, "ValueError", {}, {})}
    ELSE IF GetAndReserve(reserved) = {}
    THEN {TrickboxOutcome(reserved, lines, "NoFreeRegister", {}, {})}
    ELSE UNION {
        IF GetAndReserve(reserved \cup {addr_reg}) = {}
        THEN {TrickboxOutcome(reserved \cup {addr_reg}, lines, "NoFreeRegister",
                              {addr_reg}, {})}
        ELSE {TrickboxOutcome(
                  Free(Free(reserved \cup {addr_reg, value_reg}, addr_reg), value_reg),
                  lines \o WriteLines(addr_reg, value_reg,
                                      TRICKBOX_BASE_ADDRESS + Val(GetOffset(field)),
                                      value, register),
                  "none", {addr_reg, value_reg}, {addr_reg, value_reg}) :
              value_reg \in GetAndReserve(reserved \cup {addr_reg})}
        : addr_reg \in GetAndReserve(reserved)}

Read_KeepsAddrReg(reserved, lines, field, register, architecture) ==
    IF architecture # "arm"
    THEN {TrickboxOutcome(reserved, lines, "RuntimeError", {}, {})}
    ELSE IF IsNone(GetOffset(field))
    THEN {TrickboxOutcome(reserved, lines, "ValueError", {}, {})}
    ELSE IF GetAndReserve(reserved) = {}
    THEN {TrickboxOutcome(reserved, lines, "NoFreeRegister", {}, {})}
    ELSE {TrickboxOutcome(
              reserved \cup {addr_reg},
              lines \o <<Asm("ldr", <<Reg(addr_reg),
                                      TRICKBOX_BASE_ADDRESS + Val(GetOffset(field))>>),
                         Asm("ldr", <<AsSize(register, 32), Reg(addr_reg)>>)>>,
              "none", {addr_reg}, {}) :
          addr_reg \in GetAndReserve(reserved)}

\* Trickbox.read.
Read(reserved, lines, field, register, architecture) ==
    IF architecture # "arm"
    THEN {TrickboxOutcome(reserved, lines, "RuntimeError", {}, {})}
    ELSE IF IsNone(GetOffset(field))
    THEN {TrickboxOutcome(reserved, lines, "ValueError", {}, {})}
    ELSE IF GetAndReserve(reserved) = {}
    THEN {TrickboxOutcome(reserved, lines, "NoFreeRegister", {}, {})}
    ELSE {TrickboxOutcome(
              Free(reserved \cup {addr_reg}, addr_reg),
              lines \o <<Asm("ldr", <<Reg(addr_reg),
                                      TRICKBOX_BASE_ADDRESS + Val(GetOffset(field))>>),
                         Asm("ldr", <<AsSize(register, 32), Reg(addr_reg)>>)>>,
              "none", {addr_reg}, {addr_reg}) :
          addr_reg \in GetAndReserve(reserved)}

(***************************************************************************)
(* SwitchState (switch_state.py): the objects constructed, the scopes      *)
(* entered and not yet left, innermost last, and the last operation.       *)
(***************************************************************************)
VARIABLES
    switch_objects,     \* the SwitchState objects constructed ahead of their use
    switch_scopes,      \* the with blocks entered and not left, innermost last
    last_switch         \* the last SwitchState operation and what came of it

switch_vars == <<switch_objects, switch_scopes, last_switch>>

\* The names a SwitchState is asked for: the states and a name of no state.
StateNameArgs == StateNames \cup {"no_state"}

NoSwitch ==
    [op |-> "none", outcome |-> "ok", kind |-> "none", requested |-> "none",
     initial_state |-> "none", entered_from |-> "none", immediate |-> FALSE]

SwitchInit ==
    /\ switch_objects = {}
    /\ switch_scopes = <<>>
    /\ last_switch = NoSwitch

\* SwitchState(state_name): ValueError for a name of no state (None here);
\* else the object, which keeps the state active at its construction.
SwitchStateObject(state_name, active) ==
    IF state_name \notin StateNames THEN None
    ELSE Some([initial_state |-> active, requested_state_name |-> state_name])

\* __enter__: set_active_state(self.requested_state_name)
Enter(object) == object.requested_state_name

\* The restoration on a normal completion only.
Exit_NormalOnly(object, kind, active) ==
    IF kind = "normal" THEN object.initial_state ELSE active

\* __exit__(exc_type, exc_val, exc_tb): set_active_state(self.initial_state.state_name),
\* whether the body completed or raised.
Exit(object, kind, active) == object.initial_state

\* The scope a with statement opens on an object: the object, the state that
\* was active just before the entry, and whether the object was constructed
\* by the with statement itself.
Scope(object, entered_from, immediate) ==
    [object |-> object, entered_from |-> entered_from, immediate |-> immediate]

\* obj = SwitchState(state_name), kept for later.
ConstructSwitchState(state_name) ==
    LET object == SwitchStateObject(state_name, active_state) IN
    /\ IF IsNone(object)
       THEN /\ last_switch' = [NoSwitch EXCEPT !.op = "construct", !.outcome = "error",
                                               !.requested = state_name]
            /\ UNCHANGED switch_objects
       ELSE /\ last_switch' = [NoSwitch EXCEPT !.op = "construct",
                                               !.requested = state_name,
                                               !.initial_state = active_state]
            /\ switch_objects' = switch_objects \cup {Val(object)}
    /\ UNCHANGED <<switch_scopes, mmu_vars, mem_vars, tracker_vars, read_vars, trickbox_vars>>

\* The entry of a with block on the object.
EnterScope(object, immediate) ==
    /\ active_state' = Enter(object)
    /\ switch_scopes' = Append(switch_scopes, Scope(object, active_state, immediate))
    /\ last_switch' = [NoSwitch EXCEPT !.op = "enter",
                                       !.requested = object.requested_state_name,
                                       !.initial_state = object.initial_state,
                                       !.entered_from = active_state,
                                       !.immediate = immediate]
    /\ UNCHANGED <<switch_objects, unmapped_va_intervals, mapped_va_intervals,
                   unmapped_pa_intervals, page_table_entries,
                   page_table_entries_by_type, va_reservations, pa_reservations,
                   tracker_removals, last_call, mem_vars, tracker_vars, read_vars, trickbox_vars>>

\* with SwitchState(state_name): the object is constructed and entered.
WithSwitchState(state_name) ==
    /\ ~IsNone(SwitchStateObject(state_name, active_state))
    /\ EnterScope(Val(SwitchStateObject(state_name, active_state)), TRUE)

\* with obj: an object constructed earlier is entered.
WithObject(object) ==
    /\ object \in switch_objects
    /\ EnterScope(object, FALSE)

\* The innermost with block ends, its body completed or raising.
LeaveScope(kind) ==
    /\ switch_scopes # <<>>
    /\ LET scope == switch_scopes[Len(switch_scopes)] IN
       /\ active_state' = Exit(scope.object, kind, active_state)
       /\ last_switch' = [NoSwitch EXCEPT !.op = "exit", !.kind = kind,
                                          !.requested = scope.object.requested_state_name,
                                          !.initial_state = scope.object.initial_state,
                                          !.entered_from = scope.entered_from,
                                          !.immediate = scope.immediate]
    /\ switch_scopes' = SubSeq(switch_scopes, 1, Len(switch_scopes) - 1)
    /\ UNCHANGED <<switch_objects, unmapped_va_intervals, mapped_va_intervals,
                   unmapped_pa_intervals, page_table_entries,
                   page_table_entries_by_type, va_reservations, pa_reservations,
                   tracker_removals, last_call, mem_vars, tracker_vars, read_vars, trickbox_vars>>


\* The Trickbox calls of a run.
\* A call's outcome applied to the register manager and the emitted lines.
ApplyTrickbox(out, op, field, value, register, architecture) ==
    /\ reserved_registers' = out.reserved
    /\ asm_lines' = out.lines
    /\ trickbox_call' =
           [number |-> trickbox_call.number + 1, op |-> op,
            outcome |-> out.outcome, error |-> out.error,
            field |-> field, value |-> value, register |-> register,
            architecture |-> architecture,
            reserved_by_call |-> out.reserved_by_call,
            freed_by_call |-> out.freed_by_call]
    /\ UNCHANGED <<mmu_vars, mem_vars, tracker_vars, read_vars, switch_vars>>

TrickboxWrite(field, value, register, architecture) ==
    \E out \in Write(reserved_registers, asm_lines, field, value, register, architecture) :
        ApplyTrickbox(out, "write", field, value, register, architecture)

TrickboxRead(field, register, architecture) ==
    \E out \in Read(reserved_registers, asm_lines, field, register, architecture) :
        ApplyTrickbox(out, "read", field, None, Some(register), architecture)

\* The test body around the calls reserves registers of its own and frees them.
BodyReserves ==
    /\ \E register \in GetAndReserve(reserved_registers) :
           reserved_registers' = reserved_registers \cup {register}
    /\ UNCHANGED <<asm_lines, trickbox_call, mmu_vars, mem_vars, tracker_vars,
                   read_vars, switch_vars>>

BodyFrees ==
    /\ \E register \in reserved_registers :
           reserved_registers' = Free(reserved_registers, register)
    /\ UNCHANGED <<asm_lines, trickbox_call, mmu_vars, mem_vars, tracker_vars,
                   read_vars, switch_vars>>

RECURSIVE BagSum(_, _)
BagSum(f, S) ==
    IF S = {} THEN 0
    ELSE LET x == CHOOSE y \in S : TRUE IN BagCardinality(f[x]) + BagSum(f, S \ {x})

ReservationsMade == BagCardinality(pa_reservations) + BagSum(va_reservations, MMUS)

Apply(out) ==
    /\ unmapped_va_intervals' = out.st.uva
    /\ mapped_va_intervals' = out.st.mva
    /\ unmapped_pa_intervals' = out.st.upa
    /\ page_table_entries' = out.st.pages
    /\ page_table_entries_by_type' = out.st.by_type
    /\ active_state' = out.st.active
    /\ va_reservations' = out.st.va_res
    /\ pa_reservations' = out.st.pa_res
    /\ tracker_removals' = out.st.removals
    /\ last_call' = out.call
    /\ UNCHANGED <<mem_vars, tracker_vars, read_vars, switch_vars, trickbox_vars>>

AllocatePage(mmu, args) ==
    \E out \in AllocatePageOutcomes(State, mmu, args) : Apply(out)

\* self is not used by the method: the call is the same on every MMU.
AllocateCrossCorePage ==
    \E out \in AllocateCrossCorePageOutcomes(State, "any") : Apply(out)

\* A query of an MMU.
Query(mmu) ==
    \E out \in QueryOutcomes(State, mmu) : Apply(out)

\* SwitchState(state_name).one_way_switch()
OneWaySwitch(state_name) ==
    /\ state_name \in StateNames
    /\ active_state' = state_name
    /\ last_call' = CallRecord("one_way_switch", "none", NoArgs)
    /\ tracker_removals' = <<>>
    /\ UNCHANGED <<unmapped_va_intervals, mapped_va_intervals, unmapped_pa_intervals,
                   page_table_entries, page_table_entries_by_type,
                   va_reservations, pa_reservations>>
    /\ UNCHANGED <<mem_vars, tracker_vars, read_vars, switch_vars, trickbox_vars>>

\* Memory(name=..., byte_size=..., shared=..., ...)
NewMemory(args) ==
    \E out \in MemoryOutcomes(MemState, args) :
        /\ memory_blocks' = out.st.blocks
        /\ memory_count' = out.st.count
        /\ memory_operands' = out.st.operands
        /\ memory_initial_seed_id' = out.st.seed_id
        /\ UNCHANGED memory_capacity
        /\ last_memory' = out.call
        /\ last_read' = NoRead
        /\ last_label' = NoLabel
        /\ UNCHANGED <<mmu_vars, tracker_vars, switch_vars, trickbox_vars>>

\* memory.get_address() and memory.get_pa_address() on the operand last made.
ReadMemory ==
    /\ last_memory.outcome = "ok"
    /\ ~IsNone(last_memory.result)
    /\ last_read' =
          [done |-> TRUE, active |-> active_state,
           address |-> GetAddress(memory_blocks, Val(last_memory.result), active_state),
           pa_address |-> GetPaAddress(memory_blocks, Val(last_memory.result),
                                       active_state)]
    /\ UNCHANGED <<mmu_vars, mem_vars, tracker_vars, last_label, switch_vars, trickbox_vars>>

\* memory.format_reg_as_label(register) on the operand last made, under the
\* architecture the configuration selects.
FormatLabel ==
    /\ last_memory.outcome = "ok"
    /\ ~IsNone(last_memory.result)
    /\ \E architecture \in Architectures, register \in Registers :
          last_label' =
             [done |-> TRUE, architecture |-> architecture, register |-> register,
              returned |-> FormatRegAsLabel(Val(last_memory.result), register,
                                            architecture)]
    /\ UNCHANGED <<mmu_vars, mem_vars, tracker_vars, last_read, switch_vars, trickbox_vars>>

vars == <<mmu_vars, mem_vars, tracker_vars, read_vars, switch_vars, trickbox_vars>>

\* The pages and the trackers never read the counter behind the labels: the
\* runs about them start from its lowest draw.
Init ==
    /\ MmuInit /\ MemInit /\ TrackerInit
    /\ last_read = NoRead
    /\ last_label = NoLabel
    /\ SwitchInit
    /\ TrickboxInit
    /\ memory_capacity = MaxBlocks
    /\ \A seed_id \in InitialSeedIds : memory_initial_seed_id <= seed_id

\* Runs of up to MaxReservations reservations of placement calls.
Next ==
    \/ /\ ReservationsMade < MaxReservations
       /\ \E mmu \in MMUS, args \in PlacementArgs : AllocatePage(mmu, args)
    \/ /\ ReservationsMade < MaxReservations
       /\ AllocateCrossCorePage
    \/ \E state_name \in StateNames : OneWaySwitch(state_name)

Spec == Init /\ [][Next]_vars

\* Short runs of calls with every combination of arguments; the error a call
\* raises ends the run.  allocate_page works on the MMU it is called on and
\* allocate_cross_core_page comes back to the state it started in: the runs
\* are made in the first state.
NextArgs ==
    \/ /\ last_call.outcome = "ok"
       /\ ReservationsMade < MaxReservationsArgs
       /\ \E mmu \in MMUS, args \in AllocatePageArgs : AllocatePage(mmu, args)
    \/ /\ last_call.outcome = "ok"
       /\ ReservationsMade < MaxReservationsArgs
       /\ AllocateCrossCorePage

InitArgs == Init /\ active_state = AllStates[1]

\* Short runs of allocations with queries of the MMUs between them; the error
\* an allocation raises ends the run.
NextQuery ==
    \/ /\ last_call.outcome = "ok"
       /\ ReservationsMade < MaxReservationsArgs
       /\ \E mmu \in MMUS, args \in PlacementArgs : AllocatePage(mmu, args)
    \/ /\ last_call.outcome = "ok"
       /\ ReservationsMade < MaxReservationsArgs
       /\ AllocateCrossCorePage
    \/ /\ last_call.outcome = "ok"
       /\ \E mmu \in MMUS : Query(mmu)

SpecQuery == InitArgs /\ [][NextQuery]_vars

SpecArgs == InitArgs /\ [][NextArgs]_vars

\* Runs of up to MaxOperands constructions of memory operands over up to
\* MaxBlocks memory blocks; the error a construction raises ends the run.
NextMem ==
    /\ last_memory.outcome = "ok"
    /\ memory_count < MaxOperands
    /\ \E args \in MemoryArgs(memory_blocks) : NewMemory(args)

\* The constructions do not depend on the active state: one is enough.
InitMem == Init /\ active_state = AllStates[1]

SpecMem == InitMem /\ [][NextMem]_vars

\* Runs of up to MaxOperands constructions over up to MaxBlocksArgs blocks: the
\* default constructions, then one with any combination of arguments, which
\* ends the run.
NextMemArgs ==
    /\ last_memory.outcome = "ok"
    /\ last_memory.args \in SetupMemoryArgs
    /\ memory_count < MaxOperands
    /\ \E args \in CombinedMemoryArgs(memory_blocks) : NewMemory(args)

InitMemArgs ==
    /\ MmuInit /\ MemInit /\ TrackerInit
    /\ last_read = NoRead
    /\ last_label = NoLabel
    /\ SwitchInit
    /\ TrickboxInit
    /\ active_state = AllStates[1]
    /\ memory_capacity = MaxBlocksArgs

SpecMemArgs == InitMemArgs /\ [][NextMemArgs]_vars

\* Runs of up to MaxOperands constructions, cross-core or not, made in any
\* state, with switches of the active state and reads of the addresses between
\* them.
NextMemRead ==
    \/ /\ last_memory.outcome = "ok"
       /\ memory_count < MaxOperands
       /\ \E args \in ReadMemoryArgs : NewMemory(args)
    \/ \E state_name \in StateNames : OneWaySwitch(state_name)
    \/ ReadMemory

InitMemRead ==
    /\ MmuInit /\ MemInit /\ TrackerInit
    /\ last_read = NoRead
    /\ last_label = NoLabel
    /\ SwitchInit
    /\ TrickboxInit
    /\ memory_capacity = MaxBlocksArgs
    /\ \A seed_id \in InitialSeedIds : memory_initial_seed_id <= seed_id

SpecMemRead == InitMemRead /\ [][NextMemRead]_vars

\* Runs of up to MaxOperands constructions, made while the segment has room
\* for a block, with the labels of the operands formatted between them.
NextMemLabel ==
    \/ /\ last_memory.outcome = "ok"
       /\ memory_count < MaxOperands
       /\ Len(memory_blocks) < memory_capacity
       /\ \E args \in LabelMemoryArgs : NewMemory(args)
    \/ FormatLabel

SpecMemLabel == InitMem /\ [][NextMemLabel]_vars

\* Runs of up to MaxTrickboxCalls Trickbox calls, between which the test body
\* reserves and frees registers of its own.
NextTrickbox ==
    \/ /\ trickbox_call.number < MaxTrickboxCalls
       /\ \E field \in FieldArgs, value \in ValueArgs, register \in RegisterArgs,
             architecture \in {"arm", "riscv"} :
              TrickboxWrite(field, value, register, architecture)
    \/ /\ trickbox_call.number < MaxTrickboxCalls
       /\ \E field \in FieldArgs, register \in RegisterPool,
             architecture \in {"arm", "riscv"} :
              TrickboxRead(field, register, architecture)
    \/ BodyReserves
    \/ BodyFrees

SpecTrickbox == InitArgs /\ [][NextTrickbox]_vars

\* Runs of SwitchState: up to MaxScopes objects constructed ahead, with blocks
\* nested up to MaxScopes deep on objects constructed on the spot or ahead,
\* left by completion or by an exception, and one-way switches anywhere.
NextSwitch ==
    \/ /\ Cardinality(switch_objects) < MaxScopes
       /\ \E state_name \in StateNameArgs : ConstructSwitchState(state_name)
    \/ /\ Len(switch_scopes) < MaxScopes
       /\ \E state_name \in StateNameArgs : WithSwitchState(state_name)
    \/ /\ Len(switch_scopes) < MaxScopes
       /\ \E object \in switch_objects : WithObject(object)
    \/ \E kind \in {"normal", "exception"} : LeaveScope(kind)
    \/ \E state_name \in StateNames : OneWaySwitch(state_name)

SpecSwitch == Init /\ [][NextSwitch]_vars

\* Runs of up to MaxTrackerCalls calls of find_and_remove on the lone tracker.
NextTracker ==
    /\ Len(tracker_returned) < MaxTrackerCalls
    /\ tracker_call.outcome = "ok"
    /\ \E size \in TrackerSizes, alignment_bits \in TrackerAlignmentBits :
          /\ TrackerFindAndRemove(size, alignment_bits)
          /\ UNCHANGED <<mmu_vars, mem_vars, read_vars, switch_vars, trickbox_vars>>

SpecTracker == InitMem /\ [][NextTracker]_vars

(***************************************************************************)
(* Properties of the MMU.                                                  *)
(***************************************************************************)
\* Everything but the active state and the record of the call.
pool_vars == <<unmapped_va_intervals, mapped_va_intervals, unmapped_pa_intervals,
               page_table_entries, page_table_entries_by_type,
               va_reservations, pa_reservations>>

Overlap(a, b) == a.start < b.start + b.size /\ b.start < a.start + a.size

RECURSIVE SumSizes(_)
SumSizes(intervals) ==
    IF intervals = <<>> THEN 0 ELSE Head(intervals).size + SumSizes(Tail(intervals))

\* The spans of trackers a and b together cover [start, start+size) exactly once.
Partition(a, b, start, size) ==
    LET all == [i \in 1..Len(a) |-> [start |-> a[i].start, size |-> a[i].size]]
               \o [i \in 1..Len(b) |-> [start |-> b[i].start, size |-> b[i].size]]
    IN /\ \A i \in 1..Len(all) :
            /\ all[i].size > 0
            /\ start <= all[i].start
            /\ all[i].start + all[i].size <= start + size
       /\ \A i, j \in 1..Len(all) : i # j => ~Overlap(all[i], all[j])
       /\ SumSizes(all) = size

\* No part of [start, start+size) is free in the tracker.
AbsentFrom(intervals, start, size) ==
    \A i \in 1..Len(intervals) : ~Overlap(intervals[i], [start |-> start, size |-> size])

IsCrossCoreCall(call) == call.op = "allocate_cross_core_page"
IsAllocatePageCall(call) == call.op = "allocate_page"

\* C1: after a call to allocate_cross_core_page the active state is the one that
\* was active before the call, whether the call returns or raises.
C1_ActiveStateRestored ==
    [][IsCrossCoreCall(last_call') => active_state' = active_state]_vars

\* C2: in every reachable state, the unmapped and the mapped VA tracker of every
\* MMU are disjoint and together cover exactly the MMU's VA range.
C2_PartitionInvariant ==
    \A m \in MMUS :
        Partition(unmapped_va_intervals[m], mapped_va_intervals[m],
                  VA_RANGE_ADDRESS, VA_RANGE_BYTE_SIZE)

\* C3: two distinct reservations taken from the same tracker (the unmapped VA
\* tracker of one MMU, or the global PA tracker) never overlap.
NoDoubleAllocation(reservations) ==
    \A r \in BagToSet(reservations) :
        /\ CopiesIn(r, reservations) = 1
        /\ \A q \in BagToSet(reservations) : q # r => ~Overlap(q, r)

C3_NoDoubleAllocation ==
    /\ NoDoubleAllocation(pa_reservations)
    /\ \A m \in MMUS : NoDoubleAllocation(va_reservations[m])

\* C3's case: an MMU and the PA tracker have each served two reservations, by both
\* operations and on both paths.
C3_Witness ==
    /\ BagCardinality(pa_reservations) >= 3
    /\ \E m \in MMUS :
         /\ BagCardinality(va_reservations[m]) >= 2
         /\ \E i, j \in 1..Len(page_table_entries[m]) :
              /\ page_table_entries[m][i].is_cross_core
              /\ page_table_entries[m][j].va = page_table_entries[m][j].pa

\* C4: when allocate_page with VA_eq_PA succeeds, every page returned has
\* va = pa, and the whole range is absent from the MMU's unmapped VA tracker and
\* from the unmapped PA tracker.
IdentitySucceeded(call) ==
    IsAllocatePageCall(call) /\ call.args.VA_eq_PA /\ call.outcome = "ok"

C4_IdentityCorrect ==
    IdentitySucceeded(last_call) =>
        /\ \A i \in 1..Len(last_call.result) :
              last_call.result[i].va = last_call.result[i].pa
        /\ last_call.va_start = last_call.pa_start
        /\ AbsentFrom(unmapped_va_intervals[last_call.mmu],
                      last_call.va_start, last_call.full_size)
        /\ AbsentFrom(unmapped_pa_intervals, last_call.va_start, last_call.full_size)

\* C4's case: an identity allocation has succeeded after the PA tracker and the
\* MMU's VA tracker had already been split by earlier allocations.
C4_Witness ==
    /\ IdentitySucceeded(last_call)
    /\ Len(last_call.result) = 1
    /\ Len(page_table_entries[last_call.mmu]) >= 2
    /\ Len(unmapped_pa_intervals) >= 2

\* C5: the start of every successful reservation is a multiple of
\* 1 << alignment_bits, alignment_bits being the caller's value, or 12 for a
\* 4 KiB page and 21 for a 2 MiB page when the caller gave none.
ClaimedAlignmentBits(call) ==
    IF ~IsNone(call.args.alignment_bits) THEN Val(call.args.alignment_bits)
    ELSE IF call.size = "SIZE_4K" THEN ALIGN_BITS_4K ELSE ALIGN_BITS_2M

AlignedTo(address, alignment_bits) == address % Alignment(alignment_bits) = 0

C5_Aligned ==
    /\ (IsAllocatePageCall(last_call) /\ last_call.outcome = "ok") =>
          /\ AlignedTo(last_call.va_start, ClaimedAlignmentBits(last_call))
          /\ AlignedTo(last_call.pa_start, ClaimedAlignmentBits(last_call))
    /\ (IsCrossCoreCall(last_call) /\ last_call.outcome = "ok") =>
          /\ AlignedTo(last_call.pa_start, ALIGN_BITS_2M)
          /\ \A m \in MMUS :
                AlignedTo(page_table_entries[m][Len(page_table_entries[m])].va,
                          ALIGN_BITS_2M)

\* C5's case: an identity allocation of a 4 KiB page at a caller's alignment of
\* 13 bits has succeeded, away from the start of the range.
C5_Witness ==
    /\ IsAllocatePageCall(last_call) /\ last_call.outcome = "ok"
    /\ last_call.args.alignment_bits = Some(13)
    /\ last_call.size = "SIZE_4K"
    /\ last_call.args.VA_eq_PA
    /\ last_call.va_start > VA_RANGE_ADDRESS

\* C8: a successful allocate_cross_core_page appends exactly one page to the
\* page list of every MMU; all of them have the call's pa and the 2 MiB size and
\* are marked cross-core, and each va was free in its own MMU's unmapped tracker
\* and is no longer.
CrossCoreSucceeded(call) == IsCrossCoreCall(call) /\ call.outcome = "ok"

C8_CrossCoreRecords ==
    [][CrossCoreSucceeded(last_call') =>
         \A m \in MMUS :
            /\ Len(page_table_entries'[m]) = Len(page_table_entries[m]) + 1
            /\ SubSeq(page_table_entries'[m], 1, Len(page_table_entries[m]))
                 = page_table_entries[m]
            /\ LET p == page_table_entries'[m][Len(page_table_entries'[m])]
               IN /\ p.pa = last_call'.pa_start
                  /\ p.size = PageSizeValue("SIZE_2M")
                  /\ p.is_cross_core
                  /\ IsRegionAvailable(unmapped_va_intervals[m], p.va, p.size)
                  /\ AbsentFrom(unmapped_va_intervals'[m], p.va, p.size)]_vars

\* C8's case: the call has succeeded over the three MMUs, two of them with
\* different va for the shared pa, one of them holding an earlier page.
C8_Witness ==
    /\ CrossCoreSucceeded(last_call)
    /\ Cardinality(MMUS) = 3
    /\ \E m, n \in MMUS :
         /\ Len(page_table_entries[m]) = 2
         /\ page_table_entries[m][2].va # page_table_entries[n][Len(page_table_entries[n])].va
         /\ page_table_entries[m][2].pa = page_table_entries[n][Len(page_table_entries[n])].pa

\* C9: allocate_page with a caller's alignment_bits below 12 for a 4 KiB page,
\* or below 21 for a 2 MiB page, fails, and no tracker and no page list changes.
BelowNaturalAlignment(call) ==
    /\ IsAllocatePageCall(call)
    /\ ~IsNone(call.args.alignment_bits)
    /\ \/ call.size = "SIZE_4K" /\ Val(call.args.alignment_bits) < ALIGN_BITS_4K
       \/ call.size = "SIZE_2M" /\ Val(call.args.alignment_bits) < ALIGN_BITS_2M

C9_InsufficientAlignmentFails ==
    [][BelowNaturalAlignment(last_call') =>
         /\ last_call'.outcome = "error"
         /\ UNCHANGED pool_vars
         /\ UNCHANGED active_state]_vars

\* C9's case: a 2 MiB page asked with 13 bits (enough for 4 KiB, not for 2 MiB)
\* has been refused.
C9_Witness ==
    /\ BelowNaturalAlignment(last_call)
    /\ last_call.size = "SIZE_2M"
    /\ last_call.args.alignment_bits = Some(13)
    /\ ~IsNone(last_call.args.page_type)
    /\ last_call.error = "InsufficientAlignment"

\* C10 as stated: allocate_page without a page_type fails with the
\* missing-page-type error and changes no tracker and no page list.
C10_MissingPageTypeError ==
    [][(IsAllocatePageCall(last_call') /\ IsNone(last_call'.args.page_type)) =>
         /\ last_call'.outcome = "error"
         /\ last_call'.error = "MissingPageType"
         /\ UNCHANGED pool_vars
         /\ UNCHANGED active_state]_vars

\* C10 amended: allocate_page without a page_type fails and changes no tracker
\* and no page list; the error is the missing-page-type error when the size and
\* the alignment pass their checks, which come first, and theirs otherwise.
SizeRejected(call) ==
    ~IsNone(call.args.size) /\ Val(call.args.size) \notin {"SIZE_4K", "SIZE_2M"}

C10_MissingPageTypeFails ==
    [][(IsAllocatePageCall(last_call') /\ IsNone(last_call'.args.page_type)) =>
         /\ last_call'.outcome = "error"
         /\ last_call'.error =
              (IF SizeRejected(last_call') THEN "InvalidSize"
               ELSE IF BelowNaturalAlignment(last_call') THEN "InsufficientAlignment"
               ELSE "MissingPageType")
         /\ UNCHANGED pool_vars
         /\ UNCHANGED active_state]_vars

\* C10's case: a call with a valid size and alignment and no page_type has been
\* refused for the missing page type.
C10_Witness ==
    /\ IsAllocatePageCall(last_call)
    /\ IsNone(last_call.args.page_type)
    /\ last_call.args.alignment_bits = Some(13)
    /\ last_call.size = "SIZE_4K"
    /\ last_call.error = "MissingPageType"

(* Properties of the memory operands.                                      *)
(***************************************************************************)
BlockOf(operand) == memory_blocks[operand.memory_block]

MemoryConstructed == last_memory.outcome = "ok" /\ ~IsNone(last_memory.result)

\* C6: the memory operand of every construction that succeeds, on whichever
\* path, has memory_block_offset >= 0 and memory_block_offset + byte_size no
\* more than the byte_size of its memory block.
C6_Containment ==
    MemoryConstructed =>
        LET operand == Val(last_memory.result) IN
        /\ operand.memory_block_offset >= 0
        /\ operand.memory_block_offset + operand.byte_size <= BlockOf(operand).byte_size

\* C6's case: an operand placed by an alignment above 1 at the very end of a
\* new shared block larger than it.
C6_Witness ==
    /\ MemoryConstructed
    /\ LET operand == Val(last_memory.result) IN
       /\ operand.shared /\ ~operand.reused_memory
       /\ operand.alignment > 1
       /\ operand.memory_block_offset > 0
       /\ operand.memory_block_offset + operand.byte_size = BlockOf(operand).byte_size

\* C7: the addresses [address, address + byte_size) of every operand that reuses
\* a shared block lie within the block's [address, address + byte_size).
C7_ReuseInsideBlock ==
    (MemoryConstructed /\ Val(last_memory.result).reused_memory) =>
        LET operand == Val(last_memory.result) IN
        /\ BlockOf(operand).address <= operand.address
        /\ operand.address + operand.byte_size
             <= BlockOf(operand).address + BlockOf(operand).byte_size

\* C7's case: an operand reusing a block that starts off the alignment, at an
\* aligned address past the first one.
C7_Witness ==
    /\ MemoryConstructed
    /\ LET operand == Val(last_memory.result) IN
       /\ operand.reused_memory
       /\ operand.alignment > 1
       /\ BlockOf(operand).address % operand.alignment # 0
       /\ operand.memory_block_offset >= operand.alignment
       /\ operand.address % operand.alignment = 0

(***************************************************************************)
(* Properties of allocate_page's arguments and results.                    *)
(***************************************************************************)
\* C11: allocate_page given a size other than 4 KiB and 2 MiB (1 GiB is one)
\* fails with the size error and changes no pool and no page list; given no
\* size, it works with 4 KiB or 2 MiB.
C11_OnlySupportedSizes ==
    [][IsAllocatePageCall(last_call') =>
         /\ SizeRejected(last_call') =>
               /\ last_call'.outcome = "error"
               /\ last_call'.error = "InvalidSize"
               /\ UNCHANGED pool_vars
               /\ UNCHANGED active_state
         /\ ~SizeRejected(last_call') => last_call'.size \in {"SIZE_4K", "SIZE_2M"}
         /\ last_call'.outcome = "ok" =>
               \A i \in 1..Len(last_call'.result) :
                  last_call'.result[i].size
                     \in {PageSizeValue("SIZE_4K"), PageSizeValue("SIZE_2M")}]_vars

\* C11's case: a 1 GiB page asked with an alignment and a page type that would
\* pass has been refused.
C11_Witness ==
    /\ IsAllocatePageCall(last_call)
    /\ last_call.args.size = Some("SIZE_1G")
    /\ last_call.args.alignment_bits = Some(21)
    /\ last_call.args.page_type = Some("TYPE_DATA")
    /\ last_call.error = "InvalidSize"

\* An aligned start at which size fits inside both a free VA span and a free PA
\* span, said address by address.
IdentityFit(va_intervals, pa_intervals, size, alignment) ==
    \E i \in 1..Len(va_intervals), j \in 1..Len(pa_intervals) :
       \E a \in va_intervals[i].start .. (va_intervals[i].start + va_intervals[i].size - 1) :
          /\ a % alignment = 0
          /\ a + size <= va_intervals[i].start + va_intervals[i].size
          /\ pa_intervals[j].start <= a
          /\ a + size <= pa_intervals[j].start + pa_intervals[j].size

\* An allocate_page call that got past its argument checks onto the VA=PA path.
IsIdentityCall(call) ==
    /\ IsAllocatePageCall(call)
    /\ call.args.VA_eq_PA
    /\ call.outcome = "ok" \/ call.error = "AllocationFailed"

\* C12: allocate_page with VA_eq_PA fails when no free VA span of the context
\* meets a free PA span in a stretch that holds an aligned start with full_size
\* after it; a failed identity call leaves the unmapped VA pool and the unmapped
\* PA pool as they were.
C12_NoIdentityRegionFails ==
    [][(IsIdentityCall(last_call') /\ last_call'.full_size > 0) =>
         /\ ~IdentityFit(unmapped_va_intervals[last_call'.mmu], unmapped_pa_intervals,
                         last_call'.full_size, Alignment(last_call'.alignment_bits))
               => last_call'.outcome = "error"
         /\ last_call'.outcome = "error" =>
               UNCHANGED <<unmapped_va_intervals, unmapped_pa_intervals>>]_vars

\* C12's case: a 2 MiB identity page refused on pools that both still hold free
\* space, none of it shared at an aligned 2 MiB.
C12_Witness ==
    /\ IsIdentityCall(last_call)
    /\ last_call.size = "SIZE_2M"
    /\ last_call.outcome = "error"
    /\ last_call.cause = "NoIdentityRegion"
    /\ SumSizes(unmapped_va_intervals[last_call.mmu]) >= last_call.full_size
    /\ SumSizes(unmapped_pa_intervals) >= last_call.full_size

\* The last n entries of a sequence.
LastEntries(seq, n) == SubSeq(seq, Len(seq) - n + 1, Len(seq))

\* C13: a successful allocate_page with sequential_page_count = n has made n
\* page records, the i-th (from 0) at va_start + i*size and pa_start + i*size,
\* each of the page size, appended in order to the context's page list; it
\* returns the record itself when n is 1 and the list of the n records otherwise.
C13_SequentialPages ==
    (IsAllocatePageCall(last_call) /\ last_call.outcome = "ok") =>
        LET n == last_call.args.sequential_page_count
            size == PageSizeValue(last_call.size)
            result == last_call.result
        IN /\ Len(result) = n
           /\ \A i \in 1..n :
                 /\ result[i].va = last_call.va_start + (i - 1) * size
                 /\ result[i].pa = last_call.pa_start + (i - 1) * size
                 /\ result[i].size = size
           /\ LastEntries(page_table_entries[last_call.mmu], n) = result
           /\ last_call.returned.type = (IF n = 1 THEN "Page" ELSE "list")
           /\ last_call.returned.pages = result

\* C13's case: two sequential pages have been allocated, after an earlier call.
C13_Witness ==
    /\ IsAllocatePageCall(last_call)
    /\ last_call.outcome = "ok"
    /\ last_call.args.sequential_page_count = 2
    /\ Len(last_call.result) = 2
    /\ Len(page_table_entries[last_call.mmu]) > 2

\* [start, start+size) lies inside one span of the tracker.
CoveredBy(intervals, start, size) ==
    \E i \in 1..Len(intervals) :
       /\ intervals[i].start <= start
       /\ start + size <= intervals[i].start + intervals[i].size

\* C14: in every reachable state the VA range of every page in a context's page
\* list lies in that context's mapped pool and no part of it is in that
\* context's unmapped pool.
C14_PagesMapped ==
    \A m \in MMUS :
       \A i \in 1..Len(page_table_entries[m]) :
          LET page == page_table_entries[m][i]
          IN /\ CoveredBy(mapped_va_intervals[m], page.va, page.size)
             /\ AbsentFrom(unmapped_va_intervals[m], page.va, page.size)

\* C14's case: a context holds a cross-core page next to a page of its own.
C14_Witness ==
    \E m \in MMUS :
       /\ Len(page_table_entries[m]) >= 2
       /\ \E i \in 1..Len(page_table_entries[m]) : page_table_entries[m][i].is_cross_core
       /\ \E i \in 1..Len(page_table_entries[m]) : ~page_table_entries[m][i].is_cross_core

(***************************************************************************)
(* Properties of the tracker.                                              *)
(***************************************************************************)
\* C15: on the tracker that starts as the one free span [0x1000, 0x3000), every
\* range find_and_remove has returned starts at a multiple of the alignment
\* asked (0x100 for 8 bits), lies inside the span, overlaps no range returned
\* by another call, and is not free any more.
C15_FindAndRemove ==
    \A i \in 1..Len(tracker_returned) :
       LET r == tracker_returned[i]
       IN /\ r.start % Pow2(r.alignment_bits) = 0
          /\ TRACKER_START <= r.start
          /\ r.start + r.size <= TRACKER_START + TRACKER_SIZE
          /\ AbsentFrom(tracker, r.start, r.size)
          /\ \A j \in 1..Len(tracker_returned) :
                j # i => ~Overlap(r, tracker_returned[j])

\* C15's case: the scenario's call, find_and_remove(0x100, alignment_bits=8),
\* made twice in a row on the fresh tracker.
C15_Witness ==
    /\ Len(tracker_returned) = 2
    /\ \A i \in 1..2 : /\ tracker_returned[i].size = Pow2(8)
                       /\ tracker_returned[i].alignment_bits = 8

(***************************************************************************)
(* Properties of the ways space leaves the free pools.                     *)
(***************************************************************************)
\* The free pool a removal was made from, as it is in the current state.
PoolOf(removal) ==
    IF removal.pool[1] = "va" THEN unmapped_va_intervals[removal.pool[2]]
    ELSE unmapped_pa_intervals

\* C16 as stated: find_and_remove is the only tracker call by which an operation
\* of the context takes a range out of an unmapped VA pool or out of the global
\* PA pool.
C16_OnlyFindAndRemove ==
    \A i \in 1..Len(tracker_removals) :
       tracker_removals[i].tracker_op = "find_and_remove"

\* C16, amended: every change of a free pool is a removal by find_and_remove or
\* by remove_region; find_and_remove is the only one used by allocate_page
\* without VA_eq_PA and by allocate_cross_core_page; allocate_page with VA_eq_PA
\* takes the range its search decided on out of the unmapped VA pool and the PA
\* pool with remove_region, and that range was free in the pool when the call
\* began.
C16_RemovalPaths ==
    [][LET removals == tracker_removals'
       IN /\ \A m \in MMUS :
                unmapped_va_intervals'[m] # unmapped_va_intervals[m] =>
                   \E i \in 1..Len(removals) : removals[i].pool = <<"va", m>>
          /\ unmapped_pa_intervals' # unmapped_pa_intervals =>
                \E i \in 1..Len(removals) : removals[i].pool = <<"pa", "all">>
          /\ \A i \in 1..Len(removals) :
                /\ removals[i].tracker_op \in {"find_and_remove", "remove_region"}
                /\ removals[i].tracker_op = "remove_region" =>
                      /\ IsIdentityCall(last_call')
                      /\ IsRegionAvailable(PoolOf(removals[i]), removals[i].start,
                                           removals[i].size)
                /\ removals[i].tracker_op = "find_and_remove" =>
                      ~IsIdentityCall(last_call')]_vars

\* C16's case: an identity allocation has taken its range out of both pools
\* with remove_region.
C16_Witness ==
    /\ IsIdentityCall(last_call)
    /\ last_call.outcome = "ok"
    /\ Len(tracker_removals) = 2
    /\ \A i \in 1..2 : tracker_removals[i].tracker_op = "remove_region"
    /\ tracker_removals[1].pool = <<"va", last_call.mmu>>
    /\ tracker_removals[2].pool = <<"pa", "all">>

(***************************************************************************)
(* Properties of the arguments of Memory.                                  *)
(***************************************************************************)
\* A construction has just been asked with these arguments.
MemoryAsked == last_memory'.args

\* Nothing was allocated, nothing was handed out.
NoBlockTouched ==
    /\ memory_blocks' = memory_blocks
    /\ memory_operands' = memory_operands
    /\ memory_count' = memory_count
    /\ IsNone(last_memory'.result)

\* C17: a Memory asked with init_value and shared=true, or with cross_core=true
\* and shared=true, fails with an error; the failed call creates no block and
\* hands out no operand in a block already there.
C17_SharedConflictsFail ==
    [][(\/ ~IsNone(MemoryAsked.init_value) /\ MemoryAsked.shared
        \/ MemoryAsked.cross_core /\ MemoryAsked.shared) =>
          /\ last_memory'.outcome = "error"
          /\ NoBlockTouched]_mem_vars

\* C17's case: with a shared block there to be reused, a cross-core shared
\* memory was refused, and so was a shared one with an init value.
C17_Witness ==
    /\ \E i \in 1..Len(memory_blocks) : memory_blocks[i].shared
    /\ last_memory.args.shared
    /\ \/ last_memory.args.cross_core /\ last_memory.error = "CrossCoreShared"
       \/ ~IsNone(last_memory.args.init_value) /\ last_memory.error = "InitValueShared"

\* C18 as stated: the byte_size of an operand is one of 1, 2, 4, 8; a size
\* given outside the set is refused before any block is allocated; a size left
\* out (None) is replaced by a member of the set, so that the call never fails
\* for want of a size.
C18_ByteSizeValid ==
    [][/\ last_memory'.outcome = "ok" =>
             Val(last_memory'.result).byte_size \in VALID_SIZES
       /\ (~IsNone(MemoryAsked.byte_size) /\ Val(MemoryAsked.byte_size) \notin VALID_SIZES) =>
             /\ last_memory'.outcome = "error"
             /\ NoBlockTouched
       /\ IsNone(MemoryAsked.byte_size) =>
             last_memory'.error \notin {"TypeError", "InvalidByteSize"}]_mem_vars

\* The caller gave a name, an address or an init value.
Supplied(args) ==
    ~IsNone(args.name) \/ ~IsNone(args.address) \/ ~IsNone(args.init_value)

\* The construction just made allocated a block and put its operand there.
FreshBlockAllocated ==
    /\ last_memory'.outcome = "ok"
    /\ Len(memory_blocks') = Len(memory_blocks) + 1
    /\ SubSeq(memory_blocks', 1, Len(memory_blocks)) = memory_blocks
    /\ Val(last_memory'.result).memory_block = Len(memory_blocks')
    /\ ~Val(last_memory'.result).reused_memory

\* C19 as stated: a shared operand has reused_memory only if no name, no
\* address and no init value was given; whenever one of them is given for a
\* shared memory, a fresh block is allocated.
C19_SuppliedGetsFreshBlock ==
    [][/\ (last_memory'.outcome = "ok" /\ Val(last_memory'.result).reused_memory) =>
             MemoryAsked.shared /\ ~Supplied(MemoryAsked)
       /\ (MemoryAsked.shared /\ Supplied(MemoryAsked)) => FreshBlockAllocated]_mem_vars

\* C19, amended: an operand has reused_memory only if it is shared and no name,
\* no address and no init value was given, and then it stands in a block that
\* was already there; a shared memory asked by name, without a memory_block,
\* that is constructed stands in a fresh block; a shared memory asked with an
\* address or an init value is refused and no block is allocated for it.
C19_ReuseOnlyUnnamed ==
    [][/\ (last_memory'.outcome = "ok" /\ Val(last_memory'.result).reused_memory) =>
             /\ MemoryAsked.shared /\ ~Supplied(MemoryAsked)
             /\ memory_blocks' = memory_blocks
             /\ Val(last_memory'.result).memory_block \in 1..Len(memory_blocks)
       /\ (MemoryAsked.shared /\ Supplied(MemoryAsked)) =>
             IF ~IsNone(MemoryAsked.address) \/ ~IsNone(MemoryAsked.init_value)
             THEN last_memory'.outcome = "error" /\ NoBlockTouched
             ELSE (last_memory'.outcome = "ok" /\ IsNone(MemoryAsked.memory_block))
                     => FreshBlockAllocated]_mem_vars

\* C19's case: a shared memory asked by name got a block of its own although a
\* shared block large enough to be reused was there.
C19_Witness ==
    /\ MemoryConstructed
    /\ last_memory.args.shared
    /\ ~IsNone(last_memory.args.name)
    /\ Len(memory_blocks) = 2
    /\ memory_blocks[1].shared
    /\ memory_blocks[1].byte_size >= Val(last_memory.result).byte_size
    /\ Val(last_memory.result).memory_block = 2
    /\ ~Val(last_memory.result).reused_memory

\* The operands constructed so far that stand in block b.
OperandsIn(b) == {k \in 1..Len(memory_operands) : memory_operands[k].memory_block = b}

\* C20 as stated: in every reachable state every block that is not shared is
\* referenced by exactly one operand, at offset 0 and of the block's byte_size,
\* whatever constructions were made, those with an explicit memory_block and
\* memory_block_offset included.
C20_DedicatedBlockOwned ==
    \A b \in 1..Len(memory_blocks) :
       ~memory_blocks[b].shared =>
          /\ Cardinality(OperandsIn(b)) = 1
          /\ \A k \in OperandsIn(b) :
                /\ memory_operands[k].memory_block_offset = 0
                /\ memory_operands[k].byte_size = memory_blocks[b].byte_size

\* C21: a Memory asked with an explicit memory_block never allocates a block;
\* it fails when the offset is missing or negative, when offset + byte_size is
\* more than the block's byte_size, or when an init_value is given too; when it
\* succeeds the operand has the block's memory type, cross-core flag and label,
\* and its physical address is the block's pa_address plus the offset.  An
\* offset given without a block fails.
C21_ExplicitBlock ==
    [][/\ ~IsNone(MemoryAsked.memory_block) =>
             LET b == Val(MemoryAsked.memory_block)
                 block == memory_blocks[b]
                 offset == MemoryAsked.memory_block_offset
             IN /\ memory_blocks' = memory_blocks
                /\ (\/ IsNone(offset)
                    \/ ~IsNone(offset) /\ Val(offset) < 0
                    \/ /\ ~IsNone(offset) /\ ~IsNone(MemoryAsked.byte_size)
                       /\ Val(offset) + Val(MemoryAsked.byte_size) > block.byte_size
                    \/ ~IsNone(MemoryAsked.init_value))
                      => last_memory'.outcome = "error" /\ NoBlockTouched
                /\ last_memory'.outcome = "ok" =>
                      LET operand == Val(last_memory'.result)
                      IN /\ operand.memory_block = b
                         /\ operand.memory_block_offset = Val(offset)
                         /\ operand.memory_type = block.memory_type
                         /\ operand.cross_core = block.cross_core
                         /\ operand.unique_label = block.label
                         /\ operand.pa_address = block.pa_address + Val(offset)
                         /\ ~operand.reused_memory
       /\ (IsNone(MemoryAsked.memory_block) /\ ~IsNone(MemoryAsked.memory_block_offset)) =>
             last_memory'.outcome = "error" /\ NoBlockTouched]_mem_vars

\* C21's case: an operand was made at offset 4 of a block already there, asked
\* under a name and a memory type that are not the block's.
C21_Witness ==
    /\ MemoryConstructed
    /\ ~IsNone(last_memory.args.memory_block)
    /\ last_memory.args.memory_block_offset = Some(4)
    /\ ~IsNone(last_memory.args.name)
    /\ last_memory.args.memory_type # BlockOf(Val(last_memory.result)).memory_type

(***************************************************************************)
(* Properties of the reads of an operand.                                  *)
(***************************************************************************)
\* C22 as stated: at every read of an operand get_address() is the block's
\* address plus the offset and get_pa_address() is the block's pa_address plus
\* the offset, the block taken as it is bound in the active state; for a
\* cross-core operand both values are worked out from the block at the read.
C22_AddressesFollowBlock ==
    last_read.done =>
       LET operand == Val(last_memory.result)
           block == memory_blocks[operand.memory_block]
       IN /\ last_read.address.value =
                BlockGetAddress(block, last_read.active) + operand.memory_block_offset
          /\ last_read.pa_address.value =
                BlockGetPaAddress(block, last_read.active) + operand.memory_block_offset
          /\ operand.cross_core =>
                last_read.address.recomputed /\ last_read.pa_address.recomputed

(***************************************************************************)
(* Properties of the offset of an operand that reuses a block.             *)
(***************************************************************************)
\* An aligned address at which the operand fits in the block.
AlignedAddressFits(operand) ==
    \E offset \in 0..(BlockOf(operand).byte_size - operand.byte_size) :
        (BlockOf(operand).address + offset) % operand.alignment = 0

SharedRequest == [DefaultMemoryArgs EXCEPT !.shared = TRUE]

\* The first shared request has been served and no other.
FirstSharedServed ==
    /\ MemoryConstructed
    /\ memory_count = 1
    /\ last_memory.args = SharedRequest

\* The request made again with the same size and alignment, served from a
\* block allocated for it.
SecondRequestFresh ==
    /\ NewMemory(SharedRequest)
    /\ last_memory'.outcome = "ok"
    /\ Val(last_memory'.result).alignment = Val(last_memory.result).alignment
    /\ ~Val(last_memory'.result).reused_memory
    /\ Len(memory_blocks') = Len(memory_blocks) + 1
    /\ Val(last_memory'.result).memory_block = Len(memory_blocks')

\* The request made again with the same size and alignment, served from the
\* block of the first request.
SecondRequestReused ==
    /\ NewMemory(SharedRequest)
    /\ last_memory'.outcome = "ok"
    /\ Val(last_memory'.result).alignment = Val(last_memory.result).alignment
    /\ Val(last_memory'.result).reused_memory
    /\ memory_blocks' = memory_blocks
    /\ Val(last_memory'.result).memory_block = Val(last_memory.result).memory_block

\* C25: after a first shared request without name, address or init value, the
\* same request made again can be served either way: from a freshly allocated
\* block, and from the block of the first request with reused_memory set.
C25_BothOutcomesReachable ==
    FirstSharedServed => (ENABLED SecondRequestFresh) /\ (ENABLED SecondRequestReused)

\* C25's case: the second of two equal shared requests has reused the block
\* the first one allocated.
C25_Witness ==
    /\ memory_count = 2
    /\ MemoryConstructed
    /\ last_memory.args = SharedRequest
    /\ Len(memory_blocks) = 1
    /\ \A n \in 1..2 : memory_operands[n].memory_block = 1
    /\ Val(last_memory.result).reused_memory

(***************************************************************************)
(* Properties of the label of an operand.                                  *)
(***************************************************************************)
\* The number a sequence of hexadecimal characters stands for.
RECURSIVE HexValue(_)
HexValue(chars) ==
    IF chars = <<>> THEN 0
    ELSE HexValue(SubSeq(chars, 1, Len(chars) - 1)) * 16
           + ((CHOOSE d \in 1..16 : HexChars[d] = chars[Len(chars)]) - 1)

\* The text is 0x and the hexadecimal digits of the offset.
IsHexOf(text, offset) ==
    /\ Len(text) > 2
    /\ SubSeq(text, 1, 2) = <<"0", "x">>
    /\ \A i \in 3..Len(text) : \E d \in 1..16 : HexChars[d] = text[i]
    /\ HexValue(SubSeq(text, 3, Len(text))) = offset

\* The label is the opening, the offset term and the closing: the offset term
\* is the separator and the offset in hexadecimal, left out for offset 0 where
\* the form says so.
HasForm(label, opening, separator, closing, offset, omitted_at_zero) ==
    /\ Len(label) >= Len(opening) + Len(closing)
    /\ SubSeq(label, 1, Len(opening)) = opening
    /\ SubSeq(label, Len(label) - Len(closing) + 1, Len(label)) = closing
    /\ LET term == SubSeq(label, Len(opening) + 1, Len(label) - Len(closing))
       IN IF offset = 0 /\ omitted_at_zero THEN term = <<>>
          ELSE /\ Len(term) > Len(separator)
               /\ SubSeq(term, 1, Len(separator)) = separator
               /\ IsHexOf(SubSeq(term, Len(separator) + 1, Len(term)), offset)

\* C26: the label of an operand is set by its byte_size and offset, the
\* register and the architecture: "<byte|word|dword|qword> [reg + off]" for
\* x86 and "[reg,#off]" for ARM, both without the offset term at offset 0,
\* "off(reg)" for RISC-V at every offset, the offset in hexadecimal; with none
\* of the three selected the call fails.
C26_FormatRegAsLabel ==
    last_label.done =>
       LET operand == Val(last_memory.result)
           offset == operand.memory_block_offset
           register == last_label.register
           returned == last_label.returned
           size_name == CASE operand.byte_size = 1 -> "byte"
                          [] operand.byte_size = 2 -> "word"
                          [] operand.byte_size = 4 -> "dword"
                          [] operand.byte_size = 8 -> "qword"
                          [] OTHER -> "none"
       IN CASE last_label.architecture = "x86" ->
                 /\ returned.outcome = "ok"
                 /\ HasForm(returned.label, <<size_name, " [", register>>, <<" + ">>,
                            <<"]">>, offset, TRUE)
            [] last_label.architecture = "riscv" ->
                 /\ returned.outcome = "ok"
                 /\ \E n \in 3..Len(returned.label) :
                       /\ IsHexOf(SubSeq(returned.label, 1, n), offset)
                       /\ SubSeq(returned.label, n + 1, Len(returned.label))
                            = <<"(", register, ")">>
            [] last_label.architecture = "arm" ->
                 /\ returned.outcome = "ok"
                 /\ HasForm(returned.label, <<"[", register>>, <<",#">>, <<"]">>,
                            offset, TRUE)
            [] OTHER ->
                 /\ returned.outcome = "error"
                 /\ returned.label = <<>>

\* C26's case: the RISC-V label of an operand at offset 0 of a shared block,
\* with its offset printed.
C26_Witness ==
    /\ last_label.done
    /\ last_label.returned.outcome = "ok"
    /\ last_label.architecture = "riscv"
    /\ BlockOf(Val(last_memory.result)).shared
    /\ Val(last_memory.result).memory_block_offset = 0
    /\ Len(last_label.returned.label) = 6

(***************************************************************************)
(* Properties of the page lists and of the queries.                        *)
(***************************************************************************)
\* The number of times a page stands in a list.
Occurrences(pages, page) == Cardinality({i \in 1..Len(pages) : pages[i] = page})

\* get_memory_stats()["pages"]
PageStats(mmu) ==
    [total |-> Len(page_table_entries[mmu]),
     code |-> Len(page_table_entries_by_type[mmu]["TYPE_CODE"]),
     data |-> Len(page_table_entries_by_type[mmu]["TYPE_DATA"]),
     device |-> Len(page_table_entries_by_type[mmu]["TYPE_DEVICE"]),
     system |-> Len(page_table_entries_by_type[mmu]["TYPE_SYSTEM"])]

\* C27: in every state, every page of a context's page list stands once in
\* the list of its page_type and in no other per-type list, the per-type
\* lists hold nothing else, and the total of get_memory_stats is the sum of
\* its code, data, device and system counts.
C27_PagesByType ==
    \A m \in MMUS :
       /\ \A i \in 1..Len(page_table_entries[m]) :
             LET page == page_table_entries[m][i] IN
             \A t \in Page_types :
                Occurrences(page_table_entries_by_type[m][t], page)
                   = IF t = page.page_type THEN 1 ELSE 0
       /\ \A t \in Page_types :
             \A i \in 1..Len(page_table_entries_by_type[m][t]) :
                Occurrences(page_table_entries[m], page_table_entries_by_type[m][t][i]) = 1
       /\ PageStats(m).total = PageStats(m).code + PageStats(m).data
                                 + PageStats(m).device + PageStats(m).system

\* C27's case: a context with pages of two types, one of them cross-core.
C27_Witness ==
    \E m \in MMUS :
       /\ PageStats(m).code >= 1
       /\ PageStats(m).data >= 1
       /\ \E i \in 1..Len(page_table_entries[m]) : page_table_entries[m][i].is_cross_core

\* The call just made is a query.
IsQuery(call) == call.op \in QueryOps

\* C28: a query (find_available_region, is_mapped, is_allocated, get_pages,
\* get_pages_by_type, get_memory_stats) leaves the unmapped and mapped VA pools
\* of every MMU, the PA pool and the page lists as they were;
\* find_available_region returns a range of the size asked that is free and
\* aligned, or None, without an error, when no span can hold the size aligned.
C28_QueriesChangeNothing ==
    [][IsQuery(last_call') =>
          /\ UNCHANGED <<unmapped_va_intervals, mapped_va_intervals,
                         unmapped_pa_intervals, page_table_entries,
                         page_table_entries_by_type>>
          /\ last_call'.outcome = "ok"
          /\ last_call'.op = "find_available_region" =>
                LET args == last_call'.args
                    returned == last_call'.returned
                    free == unmapped_va_intervals[last_call'.mmu]
                    alignment == IF IsNone(args.alignment_bits) THEN 1
                                 ELSE Pow2(Val(args.alignment_bits) - AddrUnitBits)
                IN IF \E i \in 1..Len(free) :
                         AlignUp(free[i].start, alignment) + args.size
                            <= free[i].start + free[i].size
                   THEN /\ returned.type = "tuple"
                        /\ returned.size = args.size
                        /\ returned.start % alignment = 0
                        /\ IsRegionAvailable(free, returned.start, returned.size)
                   ELSE returned.type = "None"]_vars

\* C28's case: find_available_region has found a range in an MMU that has a
\* page, and the range is still free.
C28_Witness ==
    /\ last_call.op = "find_available_region"
    /\ last_call.returned.type = "tuple"
    /\ Len(page_table_entries[last_call.mmu]) > 0
    /\ IsRegionAvailable(unmapped_va_intervals[last_call.mmu],
                         last_call.returned.start, last_call.returned.size)

(***************************************************************************)
(* Properties of the calls that fail.                                      *)
(***************************************************************************)
\* C29 as stated: an allocate_page that fails leaves the unmapped and mapped
\* VA pools of every MMU, the PA pool and the page lists as they were before
\* the call; when the PA reservation fails after the VA reservation, the VA
\* range is in the unmapped pool again and no page is added.
C29_FailedCallChangesNothing ==
    [][(IsAllocatePageCall(last_call') /\ last_call'.outcome = "error") =>
          UNCHANGED <<unmapped_va_intervals, mapped_va_intervals,
                      unmapped_pa_intervals, page_table_entries,
                      page_table_entries_by_type>>]_vars

\* C30 as stated: an allocate_cross_core_page that fails is undone: no MMU
\* keeps a page from the call and the PA range the call reserved is free again
\* in the PA pool.
C30_CrossCoreAllOrNothing ==
    [][(last_call'.op = "allocate_cross_core_page" /\ last_call'.outcome = "error") =>
          UNCHANGED <<unmapped_pa_intervals, page_table_entries,
                      page_table_entries_by_type>>]_vars

(***************************************************************************)
(* Properties of the pages against the mapped pool.                        *)
(***************************************************************************)
\* C31 as stated: in every state the pages of an MMU tile its mapped VA: their
\* VA ranges are pairwise disjoint and their sizes add up to the size of the
\* mapped pool, whatever sequential_page_count the calls were made with.
C31_PagesTileMapped ==
    \A m \in MMUS :
       LET pages == page_table_entries[m] IN
       /\ \A i, j \in 1..Len(pages) :
             i # j => ~Overlap([start |-> pages[i].va, size |-> pages[i].size],
                               [start |-> pages[j].va, size |-> pages[j].size])
       /\ SumSizes(pages) = SumSizes(mapped_va_intervals[m])

(***************************************************************************)
(* Properties of the range the identity search chooses.                    *)
(***************************************************************************)
\* The range lies in one span of the tracker.
InOneSpan(intervals, start, size) ==
    \E i \in 1..Len(intervals) :
        /\ intervals[i].start <= start
        /\ start + size <= intervals[i].start + intervals[i].size

\* C32: the range the identity search chooses lies inside one free span of
\* the MMU's unmapped VA and one free span of the unmapped PA as they are when
\* the call is made, so that neither remove_region of the identity path fails
\* for a region that is not free.
C32_IdentityRangeFree ==
    [][(IsAllocatePageCall(last_call') /\ last_call'.args.VA_eq_PA) =>
          /\ last_call'.cause # "RegionNotFree"
          /\ last_call'.outcome = "ok" =>
                /\ InOneSpan(unmapped_va_intervals[last_call'.mmu],
                             last_call'.va_start, last_call'.full_size)
                /\ InOneSpan(unmapped_pa_intervals,
                             last_call'.pa_start, last_call'.full_size)
                /\ ~InOneSpan(unmapped_va_intervals'[last_call'.mmu],
                              last_call'.va_start, last_call'.full_size)
                /\ ~InOneSpan(unmapped_pa_intervals',
                              last_call'.pa_start, last_call'.full_size)]_vars

\* C32's case: an identity-mapped allocation in an MMU that had a page
\* already, which leaves the PA pool in more than one span.
C32_Witness ==
    /\ IsAllocatePageCall(last_call)
    /\ last_call.outcome = "ok"
    /\ last_call.args.VA_eq_PA
    /\ last_call.va_start = last_call.pa_start
    /\ Len(page_table_entries[last_call.mmu]) >= 2
    /\ Len(unmapped_pa_intervals) >= 2

(***************************************************************************)
(* Properties of SwitchState.                                              *)
(***************************************************************************)
ScopeEntered == Len(switch_scopes') > Len(switch_scopes)
ScopeLeft == Len(switch_scopes') < Len(switch_scopes)

\* C33: on entering `with SwitchState(s)` the active state is s, and when the
\* block ends, by completion or by an exception of its body, the active state
\* is the one that was active when the block was entered.
C33_ScopeRestores ==
    [][/\ (ScopeEntered /\ last_switch'.immediate) =>
             active_state' = last_switch'.requested
       /\ (ScopeLeft /\ last_switch'.immediate) =>
             active_state' = last_switch'.entered_from]_vars

\* C33's case: a `with SwitchState(s)` block entered from another state than s
\* has ended by an exception, after a one-way switch inside it.
C33_Witness ==
    /\ last_switch.op = "exit"
    /\ last_switch.kind = "exception"
    /\ last_switch.immediate
    /\ last_switch.requested # last_switch.entered_from
    /\ last_call.op = "one_way_switch"
    /\ active_state = last_switch.entered_from

\* C34 as stated: leaving any scope, nested or not, on an object constructed
\* on the spot or ahead of its use, restores the state that was active just
\* before that scope was entered; after the outermost scope the state active
\* before it is back.
C34_ScopesCompose ==
    [][ScopeLeft => active_state' = last_switch'.entered_from]_vars

(***************************************************************************)
(* Properties of Trickbox.                                                 *)
(***************************************************************************)
TrickboxCalled == trickbox_call'.number = trickbox_call.number + 1

BadWriteArgs(call) ==
    \/ call.architecture # "arm"
    \/ IsNone(call.value) /\ IsNone(call.register)
    \/ ~IsNone(call.value) /\ ~IsNone(call.register)
    \/ IsNone(GetOffset(call.field))

\* C35: a write with both or neither of value and register, with an unknown
\* field or on another architecture than ARM fails, and it leaves the reserved
\* registers and the emitted lines as they were.
C35_BadWriteFailsClean ==
    [][(TrickboxCalled /\ trickbox_call'.op = "write" /\ BadWriteArgs(trickbox_call')) =>
           /\ trickbox_call'.outcome = "error"
           /\ trickbox_call'.error \in {"ValueError", "RuntimeError"}
           /\ trickbox_call'.reserved_by_call = {}
           /\ reserved_registers' = reserved_registers
           /\ asm_lines' = asm_lines]_vars

\* C35's case: after an earlier call that emitted lines, and with a register
\* held by the test body, a write on ARM to a known field with both a value
\* and a register has failed.
C35_Witness ==
    /\ trickbox_call.number = 2
    /\ trickbox_call.op = "write"
    /\ trickbox_call.architecture = "arm"
    /\ ~IsNone(GetOffset(trickbox_call.field))
    /\ ~IsNone(trickbox_call.value) /\ ~IsNone(trickbox_call.register)
    /\ trickbox_call.outcome = "error"
    /\ trickbox_call.reserved_by_call = {}
    /\ reserved_registers # {}
    /\ Len(asm_lines) > 0

WholeRangeIn(intervals, start, size) ==
    \A addr \in start..(start + size - 1) :
        \E i \in 1..Len(intervals) :
            /\ intervals[i].start <= addr
            /\ addr < intervals[i].start + intervals[i].size

\* A page of the list holds the whole range.
PageCovers(pages, start, size) ==
    \E i \in 1..Len(pages) :
        /\ pages[i].va <= start
        /\ start + size <= pages[i].va + pages[i].size

\* C37 as stated: is_mapped of a range of the VA range answers whether the
\* whole range is in the mapped pool, is_allocated whether a recorded page
\* covers the whole range, and a range is_allocated accepts is_mapped accepts.
C37_QueriesAgree ==
    /\ last_call.op = "is_mapped" =>
           (last_call.returned.value <=>
               WholeRangeIn(mapped_va_intervals[last_call.mmu],
                            last_call.args.va_addr, last_call.args.size))
    /\ last_call.op = "is_allocated" =>
           (last_call.returned.value <=>
               PageCovers(page_table_entries[last_call.mmu],
                          last_call.args.va_addr, last_call.args.size))
    /\ \A mmu \in MMUS, args \in RegionArgs :
           (\A out \in IsAllocated(State, mmu, args) : out.call.returned.value) =>
               (\A out \in IsMapped(State, mmu, args) : out.call.returned.value)

=============================================================================
